---- MODULE Spec2Model ----
(***************************************************************************)
(* Model of the Minecraft server wrapper (src/lib): the startup and        *)
(* shutdown sequences of Wrapper.run_interactive, the lock manager with    *)
(* its heartbeat worker, the pause/resume of the Syncthing folder, the     *)
(* signal handler, and the replication of the lock file between two hosts. *)
(*                                                                         *)
(* Time is counted in ticks.  Timestamps are kept as ages: the number of   *)
(* ticks since the timestamp was taken, saturating once the age can no     *)
(* longer change any comparison the code makes.                            *)
(***************************************************************************)
EXTENDS Integers, Sequences, FiniteSets, TLC

\* ------------------------------------------------------------- bounds
\* race_wait (config.safety.race_wait), in ticks.
RaceWait == 2
\* stale_threshold (config.safety.stale_threshold), in ticks.
StaleThreshold == 2

\* heartbeat_interval (config.safety.heartbeat_interval), in ticks.
HeartbeatInterval == 1

\* A replicated write reaches the peer before its age reaches MaxDelay.
MaxDelay == RaceWait
\* Ages of last_heartbeat saturate just above the stale threshold.
MaxAge == StaleThreshold + 1

Hosts == {"a", "b"}
NoHost == "none"
Peer(h) == IF h = "a" THEN "b" ELSE "a"

\* The lock file of one replica: absent, or a LockInfo record.  Only the
\* fields the coordinator branches on are kept: hostname and the age of
\* last_heartbeat (started_at and pid are informational).
NoLock == [hostname |-> NoHost, age |-> 0]
LockInfo(h, age) == [hostname |-> h, age |-> age]

VARIABLES
    pc,                 \* main thread of each host's coordinator process
    lockFile,           \* each host's replica of the lock file
    ahead,              \* the host whose replica holds a change not yet replicated
    aheadAge,           \* ticks since that change
    folderPaused,       \* "paused" flag of the folder in each host's sync daemon
    syncthingPaused,    \* Wrapper._syncthing_paused
    shutdownInProgress, \* Wrapper._shutdown_in_progress
    handler,            \* whether the main thread runs inside signal_handler
    child,              \* the server process of each host
    hbHandle,           \* LockManager._heartbeat_thread is not None
    hbStop,             \* LockManager._heartbeat_stop
    hbPc,               \* the heartbeat worker's position
    raceAge,            \* ticks slept since the S4 lock write
    raceWith,           \* the S4 write fell in the same tick as the peer's
    exitCode,           \* shutdown()'s local exit_code, then the process's
    log,                \* the calls the current run has made, in order
    call,               \* a function of the library under examination: its arguments
    result              \* what that function returned

vars == <<pc, lockFile, ahead, aheadAge, folderPaused, syncthingPaused,
          shutdownInProgress, handler, child, hbHandle, hbStop, hbPc,
          raceAge, raceWith, exitCode, log, call, result>>

\* The variables of the replicated file.
fileVars == <<lockFile, ahead, aheadAge>>
\* The variables of the heartbeat worker.
hbVars == <<hbHandle, hbStop, hbPc>>
\* The variables of a library function examined on its own.
pureVars == <<call, result>>
\* The variables of the coordinator processes and of the replicated file.
procVars == <<pc, lockFile, ahead, aheadAge, folderPaused, syncthingPaused,
              shutdownInProgress, handler, child, hbHandle, hbStop, hbPc,
              raceAge, raceWith, exitCode, log>>
\* No library function is under examination.
NoCall == [op |-> "none"]

\* ------------------------------------------------------------ helpers
Min(x, y) == IF x < y THEN x ELSE y

Has(h, e) == \E i \in 1..Len(log[h]) : log[h][i] = e
Index(h, e) == CHOOSE i \in 1..Len(log[h]) : log[h][i] = e
Before(h, e1, e2) == Has(h, e1) /\ Has(h, e2) /\ Index(h, e1) < Index(h, e2)
Count(h, e) == Cardinality({i \in 1..Len(log[h]) : log[h][i] = e})
Logged(h, e) == log' = [log EXCEPT ![h] = Append(@, e)]
Logged2(h, e1, e2) == log' = [log EXCEPT ![h] = Append(Append(@, e1), e2)]

Live(h) == pc[h] \notin {"idle", "exited", "crashed"}

\* A local write (or unlink) of the lock file on h.  The sync daemon keeps
\* the latest change of the file: h's replica is now the one to replicate.
WriteFile(h, rec) ==
    /\ lockFile' = [lockFile EXCEPT ![h] = rec]
    /\ ahead' = IF rec = lockFile[Peer(h)] THEN NoHost ELSE h
    /\ aheadAge' = 0

\* LockManager.delete_lock: nothing to do when the file is absent.
DeleteLock(h) ==
    IF lockFile[h] = NoLock THEN UNCHANGED fileVars ELSE WriteFile(h, NoLock)

\* The process ends: its daemon heartbeat thread ends with it, a server
\* process still running is left behind.
Stop(h, state, code) ==
    /\ pc' = [pc EXCEPT ![h] = state]
    /\ exitCode' = [exitCode EXCEPT ![h] = code]
    /\ hbHandle' = [hbHandle EXCEPT ![h] = FALSE]
    /\ hbStop' = [hbStop EXCEPT ![h] = FALSE]
    /\ hbPc' = [hbPc EXCEPT ![h] = "off"]
    /\ raceAge' = [raceAge EXCEPT ![h] = 0]
    /\ child' = [child EXCEPT ![h] = IF @ = "running" THEN "orphan" ELSE @]
    /\ handler' = [handler EXCEPT ![h] = "none"]

Exit(h, code) == Stop(h, "exited", code)

Goto(h, step) == pc' = [pc EXCEPT ![h] = step]

\* ---------------------------------------------------------- lock status
\* LockInfo.is_stale
IsStaleAtThreshold(rec) == rec.age >= StaleThreshold
IsStale(rec) == rec.age > StaleThreshold

\* LockManager.check_lock_status
CheckLockStatus(rec, self) ==
    IF rec = NoLock THEN "free"
    ELSE IF rec.hostname = self THEN "owned"
    ELSE IF IsStale(rec) THEN "other_stale"
    ELSE "other_active"

\* Wrapper.acquire_lock, the check after the race wait: the lock is ours
\* when the file is still there and names this host.
RereadWinsAnyOwner(rec, self) == rec # NoLock
RereadWins(rec, self) == rec # NoLock /\ rec.hostname = self

\* -------------------------------------------------------------- startup
\* Wrapper.run_interactive: the step that follows each startup step that
\* succeeded.
StartupStepsPauseFirst == <<"preflight", "sync", "lock", "prebk", "pause", "acq_write", "spawn">>
StartupSteps == <<"preflight", "sync", "lock", "prebk", "acq_write", "pause", "spawn">>
After(step) ==
    LET i == CHOOSE k \in 1..Len(StartupSteps) : StartupSteps[k] = step
    IN StartupSteps[i + 1]

\* preflight_checks passed.
PreflightOk(h) ==
    /\ pc[h] = "preflight"
    /\ Goto(h, After("preflight"))
    /\ UNCHANGED <<fileVars, folderPaused, syncthingPaused, shutdownInProgress,
                   handler, child, hbVars, raceAge, raceWith, exitCode, log>>
    /\ UNCHANGED pureVars

\* preflight_checks failed: return 1.
PreflightFail(h) ==
    /\ pc[h] = "preflight"
    /\ Exit(h, 1)
    /\ UNCHANGED <<fileVars, folderPaused, syncthingPaused, shutdownInProgress,
                   raceWith, log>>
    /\ UNCHANGED pureVars

\* The answers of the sync daemon to get_folder_status (and to wait_for_sync
\* when the folder is syncing), as check_sync_status tells them apart.
DaemonReplies == {"synced", "errors", "syncing_then_synced", "syncing_timeout",
                  "unknown_state", "unavailable", "api_error"}

\* Wrapper.check_sync_status: proceed without asking when the folder is
\* synced, became synced while waiting, or reports a state the code does
\* not know; otherwise the operator decides.
CheckSyncStatus(reply, confirm) ==
    IF reply \in {"synced", "syncing_then_synced", "unknown_state"} THEN TRUE ELSE confirm

SyncCheck(h) ==
    /\ pc[h] = "sync"
    /\ \E reply \in DaemonReplies, confirm \in BOOLEAN :
         IF CheckSyncStatus(reply, confirm)
         THEN /\ Goto(h, After("sync"))
              /\ UNCHANGED <<exitCode, hbVars, raceAge, child, handler>>
         ELSE Exit(h, 1)
    /\ UNCHANGED <<fileVars, folderPaused, syncthingPaused, shutdownInProgress,
                   raceWith, log>>
    /\ UNCHANGED pureVars

\* Wrapper.handle_lock, status "free".
LockFree(h) ==
    /\ pc[h] = "lock"
    /\ CheckLockStatus(lockFile[h], h) = "free"
    /\ Goto(h, After("lock"))
    /\ Logged(h, "lock_free")
    /\ UNCHANGED <<fileVars, folderPaused, syncthingPaused, shutdownInProgress,
                   handler, child, hbVars, raceAge, raceWith, exitCode>>
    /\ UNCHANGED pureVars

\* Wrapper.handle_lock, status "other_active": refuse to start.
LockOtherActiveProceeds(h) ==
    /\ pc[h] = "lock"
    /\ CheckLockStatus(lockFile[h], h) = "other_active"
    /\ Goto(h, After("lock"))
    /\ Logged(h, "lock_other_active")
    /\ UNCHANGED <<fileVars, folderPaused, syncthingPaused, shutdownInProgress,
                   handler, child, hbVars, raceAge, raceWith, exitCode>>
    /\ UNCHANGED pureVars
LockOtherActive(h) ==
    /\ pc[h] = "lock"
    /\ CheckLockStatus(lockFile[h], h) = "other_active"
    /\ Exit(h, 1)
    /\ Logged(h, "lock_other_active")
    /\ UNCHANGED <<fileVars, folderPaused, syncthingPaused, shutdownInProgress,
                   raceWith>>
    /\ UNCHANGED pureVars

\* Wrapper.handle_lock, status "owned" or "other_stale": the operator is
\* asked (_handle_own_crash, _handle_other_crash).
LockRecoverable(h) ==
    /\ pc[h] = "lock"
    /\ CheckLockStatus(lockFile[h], h) \in {"owned", "other_stale"}
    /\ Goto(h, "recover")
    /\ Logged(h, IF lockFile[h].hostname = h THEN "lock_owned" ELSE "lock_other_stale")
    /\ UNCHANGED <<fileVars, folderPaused, syncthingPaused, shutdownInProgress,
                   handler, child, hbVars, raceAge, raceWith, exitCode>>
    /\ UNCHANGED pureVars

\* The operator confirmed (with or without a restore): delete_lock, go on.
RecoverConfirmed(h) ==
    /\ pc[h] = "recover"
    /\ DeleteLock(h)
    /\ Goto(h, After("lock"))
    /\ Logged(h, "recover_delete")
    /\ UNCHANGED <<folderPaused, syncthingPaused, shutdownInProgress,
                   handler, child, hbVars, raceAge, raceWith, exitCode>>
    /\ UNCHANGED pureVars

\* The operator declined, cancelled, or the restore failed: return 1.
RecoverDeclined(h) ==
    /\ pc[h] = "recover"
    /\ Exit(h, 1)
    /\ UNCHANGED <<fileVars, folderPaused, syncthingPaused, shutdownInProgress,
                   raceWith, log>>
    /\ UNCHANGED pureVars

\* Wrapper.pre_start_backup: nothing to do, a snapshot created, or a
\* failure (BackupError) the operator overrides.
PreStartBackup(h) ==
    /\ pc[h] = "prebk"
    /\ Goto(h, After("prebk"))
    /\ UNCHANGED <<fileVars, folderPaused, syncthingPaused, shutdownInProgress,
                   handler, child, hbVars, raceAge, raceWith, exitCode, log>>
    /\ UNCHANGED pureVars

\* Wrapper.pre_start_backup: the snapshot failed and the operator declined
\* (return 1), or create_backup raised an OSError that nothing catches.
PreStartBackupFail(h) ==
    /\ pc[h] = "prebk"
    /\ Exit(h, 1)
    /\ UNCHANGED <<fileVars, folderPaused, syncthingPaused, shutdownInProgress,
                   raceWith, log>>
    /\ UNCHANGED pureVars

\* Wrapper.acquire_lock: write_lock(pid=0) succeeded; the sleep begins.
AcqWrite(h) ==
    /\ pc[h] = "acq_write"
    /\ WriteFile(h, LockInfo(h, 0))
    /\ Goto(h, "acq_wait")
    /\ raceAge' = [raceAge EXCEPT ![h] = 0]
    /\ raceWith' = [raceWith EXCEPT ![h] = pc[Peer(h)] = "acq_wait" /\ raceAge[Peer(h)] = 0]
    /\ Logged(h, IF folderPaused[h] THEN "lock_written_paused" ELSE "lock_written")
    /\ UNCHANGED <<folderPaused, syncthingPaused, shutdownInProgress,
                   handler, child, hbVars, exitCode>>
    /\ UNCHANGED pureVars

\* Wrapper.acquire_lock: write_lock failed (OSError): return 1.
AcqWriteFail(h) ==
    /\ pc[h] = "acq_write"
    /\ Exit(h, 1)
    /\ UNCHANGED <<fileVars, folderPaused, syncthingPaused, shutdownInProgress,
                   raceWith, log>>
    /\ UNCHANGED pureVars

\* Wrapper.acquire_lock: the sleep is over, the re-read shows this host.
AcqRereadWin(h) ==
    /\ pc[h] = "acq_wait"
    /\ raceAge[h] >= RaceWait
    /\ RereadWins(lockFile[h], h)
    /\ Goto(h, After("acq_write"))
    /\ raceAge' = [raceAge EXCEPT ![h] = 0]
    /\ Logged(h, "verified")
    /\ UNCHANGED <<fileVars, folderPaused, syncthingPaused, shutdownInProgress,
                   handler, child, hbVars, raceWith, exitCode>>
    /\ UNCHANGED pureVars

\* Wrapper.acquire_lock: the file disappeared or names the peer: return 1.
AcqRereadLose(h) ==
    /\ pc[h] = "acq_wait"
    /\ raceAge[h] >= RaceWait
    /\ ~RereadWins(lockFile[h], h)
    /\ Exit(h, 1)
    /\ Logged(h, "race_lost")
    /\ UNCHANGED <<fileVars, folderPaused, syncthingPaused, shutdownInProgress,
                   raceWith>>
    /\ UNCHANGED pureVars

\* Wrapper.pause_syncthing: pause_folder returned True (the folder is now
\* paused in the daemon); _syncthing_paused is not yet set.
PauseFolderOk(h) ==
    /\ pc[h] = "pause"
    /\ folderPaused' = [folderPaused EXCEPT ![h] = TRUE]
    /\ Goto(h, "pause_ret")
    /\ Logged(h, "pause_folder")
    /\ UNCHANGED <<fileVars, syncthingPaused, shutdownInProgress,
                   handler, child, hbVars, raceAge, raceWith, exitCode>>
    /\ UNCHANGED pureVars

\* Wrapper.pause_syncthing: self._syncthing_paused = True; return True.
PauseSetFlag(h) ==
    /\ pc[h] = "pause_ret"
    /\ syncthingPaused' = [syncthingPaused EXCEPT ![h] = TRUE]
    /\ Goto(h, After("pause"))
    /\ Logged(h, "pause_done")
    /\ UNCHANGED <<fileVars, folderPaused, shutdownInProgress,
                   handler, child, hbVars, raceAge, raceWith, exitCode>>
    /\ UNCHANGED pureVars

\* Wrapper.pause_syncthing: pause_folder returned False and the operator
\* chose to continue anyway.
PauseFolderFailContinue(h) ==
    /\ pc[h] = "pause"
    /\ Goto(h, After("pause"))
    /\ Logged2(h, "pause_folder_failed", "pause_done")
    /\ UNCHANGED <<fileVars, folderPaused, syncthingPaused, shutdownInProgress,
                   handler, child, hbVars, raceAge, raceWith, exitCode>>
    /\ UNCHANGED pureVars

\* Wrapper.pause_syncthing returned False: run_interactive deletes the lock
\* and returns 1.
PauseFolderFailAbort(h) ==
    /\ pc[h] = "pause"
    /\ DeleteLock(h)
    /\ Exit(h, 1)
    /\ Logged2(h, "pause_folder_failed", "rollback_delete")
    /\ UNCHANGED <<folderPaused, syncthingPaused, shutdownInProgress,
                   raceWith>>
    /\ UNCHANGED pureVars

\* Wrapper.start_server: server.start() returned the pid.
SpawnOk(h) ==
    /\ pc[h] = "spawn"
    /\ child' = [child EXCEPT ![h] = "running"]
    /\ Goto(h, "spawn_wl")
    /\ Logged(h, "spawn")
    /\ UNCHANGED <<fileVars, folderPaused, syncthingPaused, shutdownInProgress,
                   handler, hbVars, raceAge, raceWith, exitCode>>
    /\ UNCHANGED pureVars

\* Wrapper.start_server: write_lock(pid=pid) rewrites the file, whatever
\* it holds, with this host and fresh timestamps.
SpawnWriteLock(h) ==
    /\ pc[h] = "spawn_wl"
    /\ WriteFile(h, LockInfo(h, 0))
    /\ Goto(h, "spawn_hb")
    /\ UNCHANGED <<folderPaused, syncthingPaused, shutdownInProgress,
                   handler, child, hbVars, raceAge, raceWith, exitCode, log>>
    /\ UNCHANGED pureVars

\* LockManager.start_heartbeat, called by start_server.
SpawnStartHeartbeat(h) ==
    /\ pc[h] = "spawn_hb"
    /\ hbHandle' = [hbHandle EXCEPT ![h] = TRUE]
    /\ hbStop' = [hbStop EXCEPT ![h] = FALSE]
    /\ hbPc' = [hbPc EXCEPT ![h] = "wait"]
    /\ Goto(h, "console")
    /\ Logged(h, "hb_start")
    /\ UNCHANGED <<fileVars, folderPaused, syncthingPaused, shutdownInProgress,
                   handler, child, raceAge, raceWith, exitCode>>
    /\ UNCHANGED pureVars

\* Wrapper.start_server: server.start() raised ServerError; run_interactive
\* rolls back.
SpawnFail(h) ==
    /\ pc[h] = "spawn"
    /\ Goto(h, "rb_delete")
    /\ Logged(h, "spawn_failed")
    /\ UNCHANGED <<fileVars, folderPaused, syncthingPaused, shutdownInProgress,
                   handler, child, hbVars, raceAge, raceWith, exitCode>>
    /\ UNCHANGED pureVars

\* run_interactive after a failed start: self.lock_manager.delete_lock().
RollbackDelete(h) ==
    /\ pc[h] = "rb_delete"
    /\ DeleteLock(h)
    /\ Goto(h, "rb_resume")
    /\ Logged(h, "rollback_delete")
    /\ UNCHANGED <<folderPaused, syncthingPaused, shutdownInProgress,
                   handler, child, hbVars, raceAge, raceWith, exitCode>>
    /\ UNCHANGED pureVars

\* Wrapper.resume_syncthing: nothing unless this run paused the folder;
\* resume_folder clears the daemon's flag when it succeeds.
ResumeSkipped(h, ok) ==
    UNCHANGED <<folderPaused, syncthingPaused>> /\ Logged(h, "resume_syncthing")
ResumeSyncthing(h, ok) ==
    IF ~syncthingPaused[h]
    THEN /\ UNCHANGED <<folderPaused, syncthingPaused>>
         /\ Logged(h, "resume_syncthing")
    ELSE /\ folderPaused' = [folderPaused EXCEPT ![h] = IF ok THEN FALSE ELSE @]
         /\ syncthingPaused' = [syncthingPaused EXCEPT ![h] = IF ok THEN FALSE ELSE @]
         /\ Logged2(h, "resume_syncthing", "resume_folder")

\* run_interactive after a failed start: self.resume_syncthing(); return 1.
RollbackResume(h) ==
    /\ pc[h] = "rb_resume"
    /\ \E ok \in BOOLEAN : ResumeSyncthing(h, ok)
    /\ Exit(h, 1)
    /\ UNCHANGED <<fileVars, shutdownInProgress, raceWith>>
    /\ UNCHANGED pureVars

\* ---------------------------------------------------------------- shell
\* Console._input_loop: quit, exit or EOF ends the loop; run_interactive
\* goes on to self.shutdown().
ConsoleQuit(h) ==
    /\ pc[h] = "console"
    /\ Goto(h, "sd_enter")
    /\ UNCHANGED <<fileVars, folderPaused, syncthingPaused, shutdownInProgress,
                   handler, child, hbVars, raceAge, raceWith, exitCode, log>>
    /\ UNCHANGED pureVars

\* The server process ends on its own while the shell runs.
ChildExits(h) ==
    /\ pc[h] = "console"
    /\ child[h] = "running"
    /\ child' = [child EXCEPT ![h] = "exited"]
    /\ UNCHANGED <<pc, fileVars, folderPaused, syncthingPaused, shutdownInProgress,
                   handler, hbVars, raceAge, raceWith, exitCode, log>>
    /\ UNCHANGED pureVars

\* ------------------------------------------------------------- shutdown
\* Wrapper.shutdown: the order of its steps.
ShutdownStepsDeleteFirst == <<"sd_stop", "sd_hb", "sd_del", "sd_bk", "sd_prune", "sd_resume", "sd_cleanup", "sd_ret">>
ShutdownSteps == <<"sd_stop", "sd_hb", "sd_bk", "sd_del", "sd_prune", "sd_resume", "sd_cleanup", "sd_ret">>
AfterSd(step) ==
    LET i == CHOOSE k \in 1..Len(ShutdownSteps) : ShutdownSteps[k] = step
    IN ShutdownSteps[i + 1]

\* Wrapper.shutdown: the guard on _shutdown_in_progress.
GuardIgnored(h) == FALSE
AlreadyShuttingDown(h) == shutdownInProgress[h]

\* Wrapper.shutdown, first invocation: set the guard, exit_code = 0.
SdEnterFirst(h) ==
    /\ pc[h] = "sd_enter"
    /\ ~AlreadyShuttingDown(h)
    /\ shutdownInProgress' = [shutdownInProgress EXCEPT ![h] = TRUE]
    /\ exitCode' = [exitCode EXCEPT ![h] = 0]
    /\ Goto(h, ShutdownSteps[1])
    /\ Logged(h, "shutdown_begin")
    /\ UNCHANGED <<fileVars, folderPaused, syncthingPaused,
                   handler, child, hbVars, raceAge, raceWith>>
    /\ UNCHANGED pureVars

\* Wrapper.shutdown, a later invocation: return 0 at once.
SdEnterAgain(h) ==
    /\ pc[h] = "sd_enter"
    /\ AlreadyShuttingDown(h)
    /\ Goto(h, "sd_noop")
    /\ UNCHANGED <<fileVars, folderPaused, syncthingPaused, shutdownInProgress,
                   handler, child, hbVars, raceAge, raceWith, exitCode, log>>
    /\ UNCHANGED pureVars

\* MinecraftServer.stop (and kill): True when the server left after the
\* stop command and when kill() ended it, False when kill() failed.
StopOutcomes == {"graceful", "killed", "kill_failed"}
ServerStop(outcome) == outcome \in {"graceful", "killed"}

\* Wrapper.shutdown: if self.server.is_running: self.server.stop(timeout=60).
SdStopChild(h) ==
    /\ pc[h] = "sd_stop"
    /\ child[h] = "running"
    /\ \E outcome \in StopOutcomes :
         /\ child' = [child EXCEPT ![h] = IF outcome = "kill_failed" THEN "running" ELSE "exited"]
         /\ exitCode' = [exitCode EXCEPT ![h] = IF ServerStop(outcome) THEN @ ELSE 1]
         /\ IF outcome = "graceful"
            THEN Logged(h, "stop_child")
            ELSE Logged2(h, "stop_child", "child_forced")
    /\ Goto(h, AfterSd("sd_stop"))
    /\ UNCHANGED <<fileVars, folderPaused, syncthingPaused, shutdownInProgress,
                   handler, hbVars, raceAge, raceWith>>
    /\ UNCHANGED pureVars

\* Wrapper.shutdown: the server is not running, nothing to stop.
SdNoChild(h) ==
    /\ pc[h] = "sd_stop"
    /\ child[h] # "running"
    /\ Goto(h, AfterSd("sd_stop"))
    /\ UNCHANGED <<fileVars, folderPaused, syncthingPaused, shutdownInProgress,
                   handler, child, hbVars, raceAge, raceWith, exitCode, log>>
    /\ UNCHANGED pureVars

\* LockManager.stop_heartbeat with no heartbeat thread: return.
SdNoHeartbeat(h) ==
    /\ pc[h] = "sd_hb"
    /\ ~hbHandle[h]
    /\ Goto(h, AfterSd("sd_hb"))
    /\ Logged(h, "stop_heartbeat")
    /\ UNCHANGED <<fileVars, folderPaused, syncthingPaused, shutdownInProgress,
                   handler, child, hbVars, raceAge, raceWith, exitCode>>
    /\ UNCHANGED pureVars

\* LockManager.stop_heartbeat: self._heartbeat_stop.set(); the join begins.
SdStopHeartbeat(h) ==
    /\ pc[h] = "sd_hb"
    /\ hbHandle[h]
    /\ hbStop' = [hbStop EXCEPT ![h] = TRUE]
    /\ Goto(h, "sd_join")
    /\ Logged(h, "stop_heartbeat")
    /\ UNCHANGED <<fileVars, folderPaused, syncthingPaused, shutdownInProgress,
                   handler, child, hbHandle, hbPc, raceAge, raceWith, exitCode>>
    /\ UNCHANGED pureVars

\* LockManager.stop_heartbeat: the worker ended within the join's timeout.
SdJoined(h) ==
    /\ pc[h] = "sd_join"
    /\ hbPc[h] = "done"
    /\ hbHandle' = [hbHandle EXCEPT ![h] = FALSE]
    /\ hbPc' = [hbPc EXCEPT ![h] = "off"]
    /\ Goto(h, AfterSd("sd_hb"))
    /\ UNCHANGED <<fileVars, folderPaused, syncthingPaused, shutdownInProgress,
                   handler, child, hbStop, raceAge, raceWith, exitCode, log>>
    /\ UNCHANGED pureVars

\* LockManager.stop_heartbeat: the join timed out (heartbeat_interval + 5 s)
\* with the worker inside update_heartbeat; a warning, and on.
SdJoinTimeout(h) ==
    /\ pc[h] = "sd_join"
    /\ hbPc[h] = "write"
    /\ hbHandle' = [hbHandle EXCEPT ![h] = FALSE]
    /\ Goto(h, AfterSd("sd_hb"))
    /\ Logged(h, "join_timeout")
    /\ UNCHANGED <<fileVars, folderPaused, syncthingPaused, shutdownInProgress,
                   handler, child, hbStop, hbPc, raceAge, raceWith, exitCode>>
    /\ UNCHANGED pureVars

\* Wrapper.shutdown: the post-stop snapshot.  No world folder: skipped.
\* Otherwise create_backup returns, or raises BackupError, which is caught.
BackupOutcomes == {"no_world", "created", "backup_error"}
SdBackup(h) ==
    /\ pc[h] = "sd_bk"
    /\ \E outcome \in BackupOutcomes :
         CASE outcome = "no_world" -> UNCHANGED log
           [] outcome = "created" -> Logged(h, "create_backup")
           [] outcome = "backup_error" -> Logged2(h, "create_backup", "backup_error")
    /\ Goto(h, AfterSd("sd_bk"))
    /\ UNCHANGED <<fileVars, folderPaused, syncthingPaused, shutdownInProgress,
                   handler, child, hbVars, raceAge, raceWith, exitCode>>
    /\ UNCHANGED pureVars

\* BackupManager.create_backup: backup_folder.mkdir raises OSError before
\* the try block; shutdown catches BackupError only, so the exception leaves
\* shutdown and ends the process with a traceback.
SdBackupOSError(h) ==
    /\ pc[h] = "sd_bk"
    /\ handler[h] # "sig_console"
    /\ Exit(h, 1)
    /\ Logged2(h, "create_backup", "os_error")
    /\ UNCHANGED <<fileVars, folderPaused, syncthingPaused, shutdownInProgress,
                   raceWith>>
    /\ UNCHANGED pureVars

\* The same OSError when the signal interrupted console.start(): the
\* exception leaves the handler into run_interactive's "except Exception",
\* which logs it; run_interactive then calls self.shutdown() again.
SdBackupOSErrorInConsole(h) ==
    /\ pc[h] = "sd_bk"
    /\ handler[h] = "sig_console"
    /\ handler' = [handler EXCEPT ![h] = "none"]
    /\ Goto(h, "sd_enter")
    /\ Logged2(h, "create_backup", "os_error")
    /\ UNCHANGED <<fileVars, folderPaused, syncthingPaused, shutdownInProgress,
                   child, hbVars, raceAge, raceWith, exitCode>>
    /\ UNCHANGED pureVars

\* Wrapper.shutdown: self.lock_manager.delete_lock().
SdDeleteLock(h) ==
    /\ pc[h] = "sd_del"
    /\ DeleteLock(h)
    /\ Goto(h, AfterSd("sd_del"))
    /\ Logged(h, "delete_lock")
    /\ UNCHANGED <<folderPaused, syncthingPaused, shutdownInProgress,
                   handler, child, hbVars, raceAge, raceWith, exitCode>>
    /\ UNCHANGED pureVars

\* LockManager.delete_lock: unlink raised OSError; False, which shutdown
\* ignores.
SdDeleteLockFail(h) ==
    /\ pc[h] = "sd_del"
    /\ lockFile[h] # NoLock
    /\ Goto(h, AfterSd("sd_del"))
    /\ Logged2(h, "delete_lock", "delete_failed")
    /\ UNCHANGED <<fileVars, folderPaused, syncthingPaused, shutdownInProgress,
                   handler, child, hbVars, raceAge, raceWith, exitCode>>
    /\ UNCHANGED pureVars

\* Wrapper.shutdown: self.backup_manager.prune_backups(); a snapshot that
\* cannot be unlinked is logged inside.
SdPrune(h) ==
    /\ pc[h] = "sd_prune"
    /\ Goto(h, AfterSd("sd_prune"))
    /\ Logged(h, "prune_backups")
    /\ UNCHANGED <<fileVars, folderPaused, syncthingPaused, shutdownInProgress,
                   handler, child, hbVars, raceAge, raceWith, exitCode>>
    /\ UNCHANGED pureVars

\* Wrapper.shutdown: self.resume_syncthing().
SdResume(h) ==
    /\ pc[h] = "sd_resume"
    /\ \E ok \in BOOLEAN : ResumeSyncthing(h, ok)
    /\ Goto(h, AfterSd("sd_resume"))
    /\ UNCHANGED <<fileVars, shutdownInProgress,
                   handler, child, hbVars, raceAge, raceWith, exitCode>>
    /\ UNCHANGED pureVars

\* Wrapper.shutdown: self.server.cleanup() closes the pipes and drops the
\* process handle.
SdCleanup(h) ==
    /\ pc[h] = "sd_cleanup"
    /\ child' = [child EXCEPT ![h] = IF @ = "exited" THEN "none" ELSE IF @ = "running" THEN "orphan" ELSE @]
    /\ Goto(h, AfterSd("sd_cleanup"))
    /\ Logged(h, "cleanup")
    /\ UNCHANGED <<fileVars, folderPaused, syncthingPaused, shutdownInProgress,
                   handler, hbVars, raceAge, raceWith, exitCode>>
    /\ UNCHANGED pureVars

\* shutdown returned exit_code: run_interactive returns it; signal_handler
\* drops it and calls sys.exit(0).
SdReturn(h) ==
    /\ pc[h] = "sd_ret"
    /\ Exit(h, IF handler[h] = "none" THEN exitCode[h] ELSE 0)
    /\ Logged(h, "shutdown_complete")
    /\ UNCHANGED <<fileVars, folderPaused, syncthingPaused, shutdownInProgress,
                   raceWith>>
    /\ UNCHANGED pureVars

\* The later invocation returned 0: signal_handler calls sys.exit(0), which
\* unwinds whatever the main thread was doing (a shutdown under way
\* included); run_interactive returns the 0.
SdNoopReturn(h) ==
    /\ pc[h] = "sd_noop"
    /\ Exit(h, 0)
    /\ UNCHANGED <<fileVars, folderPaused, syncthingPaused, shutdownInProgress,
                   raceWith, log>>
    /\ UNCHANGED pureVars

\* --------------------------------------------------------------- signals
\* signal_handler (SIGINT, SIGTERM, SIGHUP), installed first thing in
\* run_interactive: it runs on the main thread, on top of whatever the main
\* thread was doing, and never returns to it.
Signal(h) ==
    /\ Live(h)
    /\ IF Has(h, "signal") THEN UNCHANGED log ELSE Logged(h, "signal")
    /\ handler' = [handler EXCEPT ![h] = IF pc[h] = "console" THEN "sig_console" ELSE "sig"]
    /\ raceAge' = [raceAge EXCEPT ![h] = 0]
    /\ Goto(h, "sd_enter")
    /\ UNCHANGED <<fileVars, folderPaused, syncthingPaused, shutdownInProgress,
                   child, hbVars, raceWith, exitCode>>
    /\ UNCHANGED pureVars

\* The process is killed (SIGKILL, power loss): nothing is cleaned up.
Crash(h) ==
    /\ Live(h)
    /\ Stop(h, "crashed", 9)
    /\ log' = [log EXCEPT ![h] = <<>>]
    /\ UNCHANGED <<fileVars, folderPaused, syncthingPaused, shutdownInProgress,
                   raceWith>>
    /\ UNCHANGED pureVars

\* The operator starts the coordinator again on the host: Wrapper.__init__.
Restart(h) ==
    /\ pc[h] \in {"exited", "crashed"}
    /\ Goto(h, "preflight")
    /\ syncthingPaused' = [syncthingPaused EXCEPT ![h] = FALSE]
    /\ shutdownInProgress' = [shutdownInProgress EXCEPT ![h] = FALSE]
    /\ exitCode' = [exitCode EXCEPT ![h] = 0]
    /\ raceWith' = [raceWith EXCEPT ![h] = FALSE]
    /\ child' = [child EXCEPT ![h] = "none"]
    /\ log' = [log EXCEPT ![h] = <<>>]
    /\ UNCHANGED <<fileVars, folderPaused, handler, hbVars, raceAge>>
    /\ UNCHANGED pureVars

\* ------------------------------------------------------------- heartbeat
\* LockManager._heartbeat_loop woke on the interval, and update_heartbeat
\* read the lock: a file that is missing or names another host makes it
\* return False; otherwise the write is next.
HbRead(h) ==
    /\ hbPc[h] = "wait"
    /\ ~hbStop[h]
    /\ hbPc' = [hbPc EXCEPT ![h] = IF RereadWins(lockFile[h], h) THEN "write" ELSE "failed"]
    /\ UNCHANGED <<pc, fileVars, folderPaused, syncthingPaused, shutdownInProgress,
                   handler, child, hbHandle, hbStop, raceAge, raceWith, exitCode, log>>
    /\ UNCHANGED pureVars

\* LockManager.update_heartbeat: open(lock_file, 'w') and dump the record
\* read before, with last_heartbeat = now.  The file is created if absent.
HbWrite(h) ==
    /\ hbPc[h] = "write"
    /\ WriteFile(h, LockInfo(h, 0))
    /\ hbPc' = [hbPc EXCEPT ![h] = "wait"]
    /\ UNCHANGED <<pc, folderPaused, syncthingPaused, shutdownInProgress,
                   handler, child, hbHandle, hbStop, raceAge, raceWith, exitCode, log>>
    /\ UNCHANGED pureVars

\* LockManager._heartbeat_loop: where the worker goes after an update that
\* returned False: the error is logged and the loop waits again.
HbFailedStops == "done"
HbFailedNext == "wait"

\* LockManager._heartbeat_loop: "Heartbeat update failed".
HbFailed(h) ==
    /\ hbPc[h] = "failed"
    /\ hbPc' = [hbPc EXCEPT ![h] = HbFailedNext]
    /\ UNCHANGED <<pc, fileVars, folderPaused, syncthingPaused, shutdownInProgress,
                   handler, child, hbHandle, hbStop, raceAge, raceWith, exitCode, log>>
    /\ UNCHANGED pureVars

\* LockManager._heartbeat_loop: _heartbeat_stop.wait returned True.
HbExit(h) ==
    /\ hbPc[h] = "wait"
    /\ hbStop[h]
    /\ hbPc' = [hbPc EXCEPT ![h] = "done"]
    /\ UNCHANGED <<pc, fileVars, folderPaused, syncthingPaused, shutdownInProgress,
                   handler, child, hbHandle, hbStop, raceAge, raceWith, exitCode, log>>
    /\ UNCHANGED pureVars

\* ----------------------------------------------------------- environment
\* The sync daemons replicate the lock file while neither folder is paused.
CanSync == \A h \in Hosts : ~folderPaused[h]

Deliver ==
    /\ ahead # NoHost
    /\ CanSync
    /\ lockFile' = [h \in Hosts |-> lockFile[ahead]]
    /\ ahead' = NoHost
    /\ aheadAge' = 0
    /\ UNCHANGED <<pc, folderPaused, syncthingPaused, shutdownInProgress,
                   handler, child, hbVars, raceAge, raceWith, exitCode, log>>
    /\ UNCHANGED pureVars

Aged(rec) == IF rec = NoLock THEN rec ELSE [rec EXCEPT !.age = Min(@ + 1, MaxAge)]

\* LockManager._heartbeat_loop: the worker waiting on the stop event wakes
\* when the event is set, or when heartbeat_interval has passed since its
\* last update.
HeartbeatDue(h) ==
    /\ hbPc[h] = "wait"
    /\ \/ hbStop[h]
       \/ lockFile[h].hostname = h /\ lockFile[h].age >= HeartbeatInterval

\* One tick passes.  A change that can be replicated is replicated before
\* its age reaches MaxDelay, a heartbeat worker that is due wakes first, and
\* start_server goes from its write_lock to start_heartbeat without waiting.
Tick ==
    /\ ~(ahead # NoHost /\ CanSync /\ aheadAge + 1 >= MaxDelay)
    /\ \A h \in Hosts : ~HeartbeatDue(h) /\ pc[h] # "spawn_hb"
    /\ lockFile' = [h \in Hosts |-> Aged(lockFile[h])]
    /\ aheadAge' = IF ahead = NoHost THEN 0 ELSE Min(aheadAge + 1, MaxDelay)
    /\ raceAge' = [h \in Hosts |-> IF pc[h] = "acq_wait" THEN Min(raceAge[h] + 1, RaceWait) ELSE 0]
    /\ UNCHANGED <<pc, ahead, folderPaused, syncthingPaused, shutdownInProgress,
                   handler, child, hbVars, raceWith, exitCode, log>>
    /\ UNCHANGED pureVars

\* ---------------------------------------------------------- specifications
InitProc ==
    /\ ahead = NoHost
    /\ aheadAge = 0
    /\ folderPaused = [h \in Hosts |-> FALSE]
    /\ syncthingPaused = [h \in Hosts |-> FALSE]
    /\ shutdownInProgress = [h \in Hosts |-> FALSE]
    /\ handler = [h \in Hosts |-> "none"]
    /\ child = [h \in Hosts |-> "none"]
    /\ hbHandle = [h \in Hosts |-> FALSE]
    /\ hbStop = [h \in Hosts |-> FALSE]
    /\ hbPc = [h \in Hosts |-> "off"]
    /\ raceAge = [h \in Hosts |-> 0]
    /\ raceWith = [h \in Hosts |-> FALSE]
    /\ exitCode = [h \in Hosts |-> 0]
    /\ log = [h \in Hosts |-> <<>>]

InitCommon ==
    /\ InitProc
    /\ call = NoCall
    /\ result = NoCall

\* No coordinator runs: the state in which a library function is examined
\* on its own.
InitIdle ==
    /\ InitProc
    /\ pc = [h \in Hosts |-> "idle"]
    /\ lockFile = [h \in Hosts |-> NoLock]

\* One coordinator, on host "a", with every failure, signal and crash; the
\* lock file is absent, or was left by host "b", whose coordinator is not
\* running (or runs with its folder paused, so that nothing of it arrives).
Init ==
    /\ InitCommon
    /\ pc = [h \in Hosts |-> IF h = "a" THEN "preflight" ELSE "idle"]
    /\ \E rec \in {NoLock, LockInfo("b", 0)} : lockFile = [h \in Hosts |-> rec]

Startup(h) ==
    \/ PreflightOk(h) \/ PreflightFail(h) \/ SyncCheck(h)
    \/ LockFree(h) \/ LockOtherActive(h) \/ LockRecoverable(h)
    \/ RecoverConfirmed(h) \/ RecoverDeclined(h)
    \/ PreStartBackup(h) \/ PreStartBackupFail(h)
    \/ AcqWrite(h) \/ AcqWriteFail(h) \/ AcqRereadWin(h)
    \/ PauseFolderOk(h) \/ PauseSetFlag(h) \/ PauseFolderFailContinue(h)
    \/ PauseFolderFailAbort(h)
    \/ SpawnOk(h) \/ SpawnWriteLock(h) \/ SpawnStartHeartbeat(h)
    \/ SpawnFail(h) \/ RollbackDelete(h) \/ RollbackResume(h)

Shutdown(h) ==
    \/ ConsoleQuit(h) \/ ChildExits(h)
    \/ SdEnterFirst(h) \/ SdStopChild(h) \/ SdNoChild(h)
    \/ SdNoHeartbeat(h) \/ SdStopHeartbeat(h) \/ SdJoined(h) \/ SdJoinTimeout(h)
    \/ SdBackup(h) \/ SdBackupOSError(h)
    \/ SdDeleteLock(h) \/ SdDeleteLockFail(h)
    \/ SdPrune(h) \/ SdResume(h) \/ SdCleanup(h) \/ SdReturn(h)

Heartbeat(h) == HbRead(h) \/ HbWrite(h) \/ HbExit(h)

Interrupts(h) ==
    \/ Signal(h) \/ SdEnterAgain(h) \/ SdNoopReturn(h) \/ SdBackupOSErrorInConsole(h)
    \/ Crash(h) \/ Restart(h)

Next ==
    \/ Startup("a") \/ Shutdown("a") \/ Heartbeat("a") \/ Interrupts("a")
    \/ Deliver \/ Tick

Spec == Init /\ [][Next]_vars

\* Two coordinators, one per host, started on a free lock with both
\* folders syncing, up to the shell: every startup step and its failures,
\* the heartbeat of a host that got there, no signal and no crash.
InitRace ==
    /\ InitCommon
    /\ pc = [h \in Hosts |-> "preflight"]
    /\ lockFile = [h \in Hosts |-> NoLock]

NextRace ==
    \/ \E h \in Hosts : Startup(h) \/ AcqRereadLose(h)
                        \/ HbRead(h) \/ HbWrite(h) \/ HbFailed(h)
    \/ Deliver \/ Tick

SpecRace == InitRace /\ [][NextRace]_vars

\* ------------------------------------------------------------ properties
\* A host holds the lock from the re-read that confirmed it until it
\* deletes the lock file (shutdown, or the rollback of a failed start).
Holding(h) ==
    /\ Has(h, "verified")
    /\ ~Has(h, "rollback_delete")
    /\ ~Has(h, "delete_lock")

\* C1: of two hosts that both found the lock free and both completed
\* acquisition, the first has deleted its lock before the second completes
\* its own: the two never hold the lock together.
MutualExclusion ==
    (\A h \in Hosts : Has(h, "lock_free")) => ~(\A h \in Hosts : Holding(h))

\* Both hosts found the lock free, wrote their records in the same tick,
\* waited the race window and re-read the file.
RaceCase ==
    /\ \A h \in Hosts : Has(h, "lock_free")
    /\ \E h \in Hosts : raceWith[h]
    /\ \A h \in Hosts : Has(h, "verified") \/ Has(h, "race_lost")

\* The host lost the race: it has left, with no pause and no server.
LostAndLeft(h) ==
    /\ Has(h, "race_lost")
    /\ pc[h] = "exited"
    /\ ~Has(h, "pause_folder")
    /\ ~Has(h, "pause_folder_failed")
    /\ ~Has(h, "spawn")

WrittenWhileSyncing ==
    \A h \in Hosts : ~Has(h, "lock_written_paused")

\* The event the S4 write left in the log of h's run.
WriteEvent(h) == IF Has(h, "lock_written") THEN "lock_written" ELSE "lock_written_paused"
\* The event the call of pause_folder left in the log of h's run.
PauseEvent(h) == IF Has(h, "pause_folder") THEN "pause_folder" ELSE "pause_folder_failed"

\* C4: in every run pause_folder is invoked only after the lock was
\* written and then verified by the re-read, the server is spawned only
\* after the pause step returned, and the heartbeat is started only after
\* the spawn.
StartupOrder ==
    \A h \in Hosts :
        /\ Has(h, PauseEvent(h)) =>
             /\ Before(h, WriteEvent(h), "verified")
             /\ Before(h, "verified", PauseEvent(h))
        /\ Has(h, "spawn") => Before(h, "pause_done", "spawn")
        /\ Has(h, "hb_start") => Before(h, "spawn", "hb_start")

StartupOrderWitness ==
    \E h \in Hosts : Has(h, "pause_folder") /\ Has(h, "hb_start") /\ pc[h] = "console"

\* C5: a process that exits after pause_folder succeeded has invoked
\* resume_folder (exits through the uncaught OSError of the post-stop
\* snapshot set aside).
ResumedOnExit ==
    \A h \in Hosts :
        pc[h] = "exited" /\ Has(h, "pause_folder") /\ ~Has(h, "os_error")
            => Has(h, "resume_folder")

\* C6: a process that completed acquisition and exits after the shutdown
\* sequence began leaves no lock file (exits through the uncaught OSError,
\* a failed unlink or a heartbeat worker that outlived the join set aside).
ReleasedOnExit ==
    \A h \in Hosts :
        /\ pc[h] = "exited"
        /\ Has(h, "verified")
        /\ Has(h, "shutdown_begin")
        /\ ~Has(h, "os_error")
        /\ ~Has(h, "delete_failed")
        /\ ~Has(h, "join_timeout")
        => lockFile[h] = NoLock

\* The steps of the shutdown sequence that leave an event, in the order
\* T0..T6 of the contract.
ShutdownEvents == <<"stop_child", "stop_heartbeat", "create_backup", "delete_lock",
                    "prune_backups", "resume_syncthing", "cleanup">>

\* C7: the steps of a shutdown occur in the order stop child, stop
\* heartbeat, post-stop snapshot, delete lock, prune, resume sync, release
\* pipes; none of the unconditional steps is reached before the ones ahead
\* of it.
ShutdownOrder ==
    \A h \in Hosts :
        Has(h, "shutdown_begin") =>
            \A i, j \in 1..Len(ShutdownEvents) :
                i < j /\ Has(h, ShutdownEvents[j]) =>
                    /\ Has(h, ShutdownEvents[i]) =>
                         Before(h, ShutdownEvents[i], ShutdownEvents[j])
                    /\ ShutdownEvents[i] \notin {"stop_child", "create_backup"} =>
                         Has(h, ShutdownEvents[i])

ShutdownOrderWitness ==
    \E h \in Hosts :
        /\ pc[h] = "exited"
        /\ \A i \in 1..Len(ShutdownEvents) : Has(h, ShutdownEvents[i])

\* C8: once the shutdown sequence has deleted the lock file, the file stays
\* absent for the rest of the process.
NoResurrectedLock ==
    \A h \in Hosts :
        Live(h) /\ Has(h, "delete_lock") /\ ~Has(h, "delete_failed")
            => lockFile[h] = NoLock

\* C9: a shutdown that began, in a run no signal reached, has attempted
\* every step down to the release of the pipes by the time the process
\* exits, whichever step failed.
ShutdownRunsThrough ==
    \A h \in Hosts :
        pc[h] = "exited" /\ Has(h, "shutdown_begin") /\ ~Has(h, "signal")
            => Has(h, "cleanup")

\* C10: the body of the shutdown sequence is entered at most once per
\* process, and a later invocation changes neither the lock file, nor the
\* snapshots and the other calls made, nor the pause state, nor the server.
ShutdownIdempotent ==
    [][\A h \in Hosts :
          /\ Count(h, "shutdown_begin")' <= 1
          /\ pc[h] = "sd_enter" /\ shutdownInProgress[h] /\ pc'[h] = "sd_noop" =>
               UNCHANGED <<lockFile, log, folderPaused, syncthingPaused, child>>]_vars

ShutdownIdempotentWitness ==
    \E h \in Hosts : pc[h] = "sd_noop" /\ Has(h, "shutdown_begin") /\ ~Has(h, "cleanup")

\* The process left during startup: it exited without entering shutdown.
FailedStartup(h) == pc[h] = "exited" /\ ~Has(h, "shutdown_begin")

ContentionRejected ==
    \A h \in Hosts :
        Has(h, "lock_other_active") =>
            /\ pc[h] = "exited"
            /\ exitCode[h] = 1
            /\ log[h] = <<"lock_other_active">>
            /\ lockFile[h] # NoLock
            /\ lockFile[h].hostname = Peer(h)
            /\ ~syncthingPaused[h]
            /\ child[h] # "running"

ContentionRejectedWitness ==
    \E h \in Hosts :
        /\ Has(h, "lock_other_active")
        /\ pc[h] = "exited"
        /\ ~IsStale(lockFile[h])

\* The S2 status check of h's run found a lock to recover and asked the
\* operator.
AskedRecovery(h) == Has(h, "lock_owned") \/ Has(h, "lock_other_stale")

\* C13: the lock file found owned or other_stale at S2 is deleted only
\* after the operator confirmed the recovery or takeover: in a run that
\* asked, the file is gone only if the confirmation was given.
DeletedOnlyOnConfirmation ==
    \A h \in Hosts :
        AskedRecovery(h) /\ lockFile[h] = NoLock => Has(h, "recover_delete")

\* ------------------------------------------------- lock file, as on disk
\* Heartbeat ages of the lock records examined, in ticks.
MaxHeartbeatAge == 4

\* What the lock file can hold: nothing (absent), no bytes, bytes that are
\* no YAML, YAML that is no mapping, a file that cannot be read, or a
\* mapping.  Of a mapping the key hostname (present or missing) and the key
\* last_heartbeat (a timestamp of some age, missing, or malformed) matter.
LockFiles ==
    {[kind |-> k, hostname |-> "missing", heartbeat |-> "missing", age |-> 0] :
        k \in {"absent", "empty", "invalid_yaml", "not_mapping", "unreadable"}}
    \cup {[kind |-> "mapping", hostname |-> n, heartbeat |-> "timestamp", age |-> a] :
            n \in Hosts \cup {"missing"}, a \in 0..MaxHeartbeatAge}
    \cup {[kind |-> "mapping", hostname |-> n, heartbeat |-> t, age |-> 0] :
            n \in Hosts \cup {"missing"}, t \in {"missing", "malformed"}}

\* LockInfo.from_dict: a missing hostname becomes 'unknown', a missing
\* last_heartbeat the empty string, which parses no better than a
\* malformed one.
FromDict(file) ==
    [hostname |-> IF file.hostname = "missing" THEN "unknown" ELSE file.hostname,
     heartbeat |-> IF file.heartbeat = "missing" THEN "malformed" ELSE file.heartbeat,
     age |-> file.age]

\* LockManager.read_lock: None unless the file exists, can be read and
\* holds a non-empty mapping.
ReadLock(file) ==
    IF file.kind = "mapping" THEN FromDict(file) ELSE [hostname |-> NoHost]

\* The record the coordinator branches on: is_stale takes a timestamp it
\* cannot parse for stale, as it does any age above the threshold.
AsLockInfo(info) ==
    IF info.hostname = NoHost THEN NoLock
    ELSE LockInfo(info.hostname,
                  IF info.heartbeat = "timestamp" THEN Min(info.age, MaxAge) ELSE MaxAge)

\* LockManager.check_lock_status on a lock file, by the host self.
CheckLockStatusOfFile(file, self) == CheckLockStatus(AsLockInfo(ReadLock(file)), self)

\* check_lock_status is called on a lock file.
CheckLockStatusReturns ==
    /\ call.op = "check_lock_status"
    /\ result = NoCall
    /\ result' = [op |-> "check_lock_status",
                  status |-> CheckLockStatusOfFile(call.file, call.self)]
    /\ UNCHANGED <<call, procVars>>

InitLockStatus ==
    /\ InitIdle
    /\ call \in {[op |-> "check_lock_status", file |-> f, self |-> h] :
                    f \in LockFiles, h \in Hosts}
    /\ result = NoCall

NextLockStatus == CheckLockStatusReturns

SpecLockStatus == InitLockStatus /\ [][NextLockStatus]_vars

\* The age of last_heartbeat as the contract counts it: infinite (here:
\* above every threshold) when the timestamp is missing or malformed.
ContractAge(file) ==
    IF file.heartbeat = "timestamp" THEN file.age ELSE StaleThreshold + 1

\* C14: for a lock record that is present, check_lock_status returns owned
\* when the hostname is this host's, other_active when it is not and the
\* heartbeat age is at most stale_threshold, other_stale when it is not and
\* the age is above; a missing hostname is no host's.
StatusClassification ==
    result # NoCall /\ call.file.kind = "mapping" =>
        result.status =
            IF call.file.hostname = call.self THEN "owned"
            ELSE IF ContractAge(call.file) <= StaleThreshold THEN "other_active"
            ELSE "other_stale"

StatusClassificationWitness ==
    /\ result # NoCall
    /\ call.file.kind = "mapping"
    /\ call.file.hostname = "missing"
    /\ call.file.heartbeat = "malformed"
    /\ result.status = "other_stale"

\* C15: check_lock_status returns free exactly when no lock file is
\* present.
FreeIffAbsent ==
    result # NoCall => (result.status = "free" <=> call.file.kind = "absent")

\* The host holds the lock in the sense of the heartbeat contract: from the
\* S4 write of its record until it deletes the file.
HoldsSinceWrite(h) ==
    /\ Live(h)
    /\ Has(h, WriteEvent(h))
    /\ ~Has(h, "delete_lock")
    /\ ~Has(h, "rollback_delete")

\* C16: while a host holds the lock, the last_heartbeat of its record in
\* the local lock file is never older than heartbeat_interval plus one
\* tick of jitter.  Checked from the start of the heartbeat worker on, a
\* worker stalled inside an update set aside.
HeartbeatFresh ==
    \A h \in Hosts :
        /\ HoldsSinceWrite(h)
        /\ Has(h, "hb_start")
        /\ lockFile[h].hostname = h
        /\ hbPc[h] # "write"
        => lockFile[h].age <= HeartbeatInterval + 1

\* C17: a heartbeat update that finds the lock file missing or naming
\* another host fails, and only fails: that step writes nothing to the
\* file and ends neither the worker, nor the coordinator, nor the server;
\* from there the worker goes back to waiting for the next interval (or
\* ends with its process).
HeartbeatFailureHarmless ==
    [][\A h \in Hosts :
          /\ hbPc[h] = "wait" /\ hbPc'[h] \in {"write", "failed"} =>
               (hbPc'[h] = "failed" <=> ~(lockFile[h] # NoLock /\ lockFile[h].hostname = h))
          /\ hbPc[h] = "wait" /\ hbPc'[h] = "failed" =>
               UNCHANGED <<lockFile, pc, child, hbHandle, hbStop, exitCode>>
          /\ hbPc[h] = "failed" =>
               /\ hbPc'[h] \in {"failed", "wait", "off"}
               /\ hbPc'[h] = "off" => ~Live(h)'
               /\ hbPc'[h] = "wait" =>
                    UNCHANGED <<lockFile, pc, child, hbHandle, hbStop, exitCode>>]_vars

HeartbeatFailureHarmlessWitness ==
    \E h \in Hosts :
        /\ hbPc[h] = "failed"
        /\ lockFile[h].hostname = Peer(h)
        /\ child[h] = "running"
        /\ pc[h] = "console"

\* --------------------------------------------------- MinecraftServer.stop
\* Timeouts passed to stop, and the times a server takes to leave after
\* the stop command, in ticks.
MaxTimeout == 2

\* What MinecraftServer.kill can meet: the process dies within 5 s, the
\* wait after kill() times out, or kill() raises OSError.
KillResults == {"killed", "wait_timeout", "os_error"}

\* The calls of stop examined: whether the server runs, whether the stop
\* command can be written to its stdin, the time it then takes to leave,
\* the timeout, and what a kill would meet.
StopCalls ==
    {[op |-> "stop", running |-> r, sendOk |-> s, exitTime |-> e, timeout |-> t, kill |-> k] :
        r \in BOOLEAN, s \in BOOLEAN, e \in 0..(MaxTimeout + 1), t \in 0..MaxTimeout,
        k \in KillResults}

\* MinecraftServer.stop: how the call went.  Not running: nothing to do.
\* The command was sent and the process left within the timeout: graceful.
\* Otherwise kill().
StopOutcome(c) ==
    IF ~c.running THEN "graceful"
    ELSE IF c.sendOk /\ c.exitTime <= c.timeout THEN "graceful"
    ELSE IF c.kill = "killed" THEN "killed"
    ELSE "kill_failed"

\* stop is called on the server.
ServerStopReturns ==
    /\ call.op = "stop"
    /\ result = NoCall
    /\ result' = [op |-> "stop",
                  returned |-> ServerStop(StopOutcome(call)),
                  forced |-> StopOutcome(call) # "graceful"]
    /\ UNCHANGED <<call, procVars>>

InitServerStop ==
    /\ InitIdle
    /\ call \in StopCalls
    /\ result = NoCall

NextServerStop == ServerStopReturns

SpecServerStop == InitServerStop /\ [][NextServerStop]_vars

\* C18: stop returns true exactly when the server left gracefully (it was
\* not running, or it left within the timeout after the stop command was
\* sent), and false whenever it had to be force-terminated.
StopTrueIffGraceful ==
    result # NoCall =>
        (result.returned <=>
            (~call.running \/ (call.sendOk /\ call.exitTime <= call.timeout)))

\* C19: a coordinator whose shutdown ran to its end exits with code 1 when
\* the server had to be force-terminated and with code 0 when it stopped
\* gracefully.
ExitCodeTellsForced ==
    \A h \in Hosts :
        pc[h] = "exited" /\ Has(h, "stop_child") /\ Has(h, "shutdown_complete")
            => (exitCode[h] = 1 <=> Has(h, "child_forced"))

\* ------------------------------------------- BackupManager.prune_backups
\* Snapshots are told apart by their age in days (file names carry the
\* time of creation to the second, so no two snapshots share one).
MaxSnapshotAge == 4
MaxKeepMinimum == 3
MaxKeepDays == 3

Max(a, b) == IF a >= b THEN a ELSE b

RangeOf(s) == {s[i] : i \in 1..Len(s)}

\* list_backups: the snapshots newest first, that is by rising age.
RECURSIVE ListBackups(_)
ListBackups(snapshots) ==
    IF snapshots = {} THEN <<>>
    ELSE LET newest == CHOOSE a \in snapshots : \A b \in snapshots : a <= b
         IN <<newest>> \o ListBackups(snapshots \ {newest})

\* backup.timestamp < cutoff, with cutoff = now - keep_days, in terms of
\* the snapshot's age.
OlderThanCutoffInclusive(age, keep_days) == age >= keep_days
OlderThanCutoff(age, keep_days) == age > keep_days

\* The loop of prune_backups from position i on: stop once only
\* keep_minimum snapshots are left, delete what is older than the cutoff
\* (an unlink that raises OSError leaves the snapshot in place).
RECURSIVE PruneLoop(_, _, _, _)
PruneLoop(backups, i, deleted, c) ==
    IF i > Len(backups) THEN deleted
    ELSE IF Len(backups) - Len(deleted) <= c.keep_minimum THEN deleted
    ELSE IF OlderThanCutoff(backups[i], c.keep_days) /\ backups[i] \notin c.failing
         THEN PruneLoop(backups, i + 1, Append(deleted, backups[i]), c)
         ELSE PruneLoop(backups, i + 1, deleted, c)

\* prune_backups: the list of deleted snapshots.
PruneBackups(c) ==
    IF ~c.auto_prune THEN <<>>
    ELSE LET backups == ListBackups(c.snapshots)
         IN IF Len(backups) <= c.keep_minimum THEN <<>>
            ELSE PruneLoop(backups, 1, <<>>, c)

\* The calls of prune_backups examined: the snapshots on disk, those
\* whose deletion fails, and the retention policy.
PruneCalls ==
    {[op |-> "prune", snapshots |-> s, failing |-> f, auto_prune |-> p,
      keep_minimum |-> m, keep_days |-> d] :
        s \in SUBSET (0..MaxSnapshotAge), f \in SUBSET (0..MaxSnapshotAge),
        p \in BOOLEAN, m \in 0..MaxKeepMinimum, d \in 0..MaxKeepDays}

\* prune_backups is called.
PruneReturns ==
    /\ call.op = "prune"
    /\ result = NoCall
    /\ result' = [op |-> "prune",
                  deleted |-> PruneBackups(call),
                  remaining |-> call.snapshots \ RangeOf(PruneBackups(call))]
    /\ UNCHANGED <<call, procVars>>

InitPrune ==
    /\ InitIdle
    /\ call \in {c \in PruneCalls : c.failing \subseteq c.snapshots}
    /\ result = NoCall

NextPrune == PruneReturns

SpecPrune == InitPrune /\ [][NextPrune]_vars

\* C20: for snapshots numbering at least keep_minimum, after a prune with
\* pruning enabled and every deletion succeeding, the number of snapshots
\* left is max(keep_minimum, number of snapshots of age <= keep_days); and
\* no prune takes the number of snapshots below keep_minimum.
RetentionCount ==
    (result # NoCall /\ Cardinality(call.snapshots) >= call.keep_minimum) =>
        /\ Cardinality(result.remaining) >= call.keep_minimum
        /\ (call.auto_prune /\ call.failing = {}) =>
              Cardinality(result.remaining) =
                  Max(call.keep_minimum,
                      Cardinality({a \in call.snapshots : a <= call.keep_days}))

RetentionCountWitness ==
    /\ result # NoCall
    /\ call.auto_prune /\ call.failing = {}
    /\ Len(result.deleted) >= 1
    /\ \E a \in result.remaining : a > call.keep_days
    /\ \E a \in result.remaining : a <= call.keep_days

\* The keep_minimum newest of the snapshots.
NewestOf(snapshots, n) ==
    LET backups == ListBackups(snapshots)
    IN {backups[i] : i \in 1..(IF n <= Len(backups) THEN n ELSE Len(backups))}

\* C21: after a prune with pruning enabled and every deletion succeeding,
\* the snapshots left are the keep_minimum newest together with every
\* snapshot of age <= keep_days.
PruneKeepsNewest ==
    (result # NoCall /\ call.auto_prune /\ call.failing = {}) =>
        result.remaining =
            NewestOf(call.snapshots, call.keep_minimum)
                \cup {a \in call.snapshots : a <= call.keep_days}

Reverse(s) == [i \in 1..Len(s) |-> s[Len(s) + 1 - i]]

\* The loop and the two conditions of prune_backups, walking the list
\* from the oldest snapshot to the newest.
PruneBackupsOldestFirst(c) ==
    IF ~c.auto_prune THEN <<>>
    ELSE LET backups == Reverse(ListBackups(c.snapshots))
         IN IF Len(backups) <= c.keep_minimum THEN <<>>
            ELSE PruneLoop(backups, 1, <<>>, c)

\* C22: prune_backups, which walks from the newest snapshot to the oldest,
\* deletes the same snapshots as the same loop walking from the oldest to
\* the newest.
DirectionUnobservable ==
    (result # NoCall /\ call.failing = {}) =>
        RangeOf(result.deleted) = RangeOf(PruneBackupsOldestFirst(call))

\* ------------------------------------------- BackupManager.list_backups
\* The newest MaxListed + 1 time stamps a file name can carry, as ages.
MaxListed == 2

\* File names of the backup directory: whether the name starts with
\* "backup_", whether it ends with ".zip", and what lies between: <<a>>
\* for a well-formed time stamp of age a, <<>> for anything else.
BackupNames ==
    {[prefix |-> TRUE, suffix |-> TRUE, stamp |-> <<a>>] : a \in 0..MaxListed}
        \cup {[prefix |-> TRUE, suffix |-> TRUE, stamp |-> <<>>],
              [prefix |-> FALSE, suffix |-> TRUE, stamp |-> <<0>>],
              [prefix |-> TRUE, suffix |-> FALSE, stamp |-> <<0>>]}

\* A backup directory: each name is absent, a file, or an entry whose
\* stat() raises OSError (a dangling link, a file that vanished).
Directories == [BackupNames -> {"absent", "file", "unreadable"}]

\* _parse_backup_filename: <<>> for None, <<a>> for the time stamp.
ParseBackupFilename(name) ==
    IF ~name.prefix THEN <<>>
    ELSE IF ~name.suffix THEN <<>>
    ELSE name.stamp

\* backup_folder.glob("backup_*.zip")
GlobBackups(dir) ==
    {n \in BackupNames : dir[n] # "absent" /\ n.prefix /\ n.suffix}

\* file_path.stat() succeeds.
StatAlwaysOk(dir, name) == TRUE
StatOk(dir, name) == dir[name] = "file"

\* backups.sort(key = timestamp, reverse = True): newest first.
RECURSIVE SortNewestFirst(_)
SortNewestFirst(names) ==
    IF names = {} THEN <<>>
    ELSE LET newest == CHOOSE n \in names :
                           \A m \in names : n.stamp[1] <= m.stamp[1]
         IN <<newest>> \o SortNewestFirst(names \ {newest})

\* list_backups on a directory.
ListDirectory(dir) ==
    SortNewestFirst({n \in GlobBackups(dir) :
                        ParseBackupFilename(n) # <<>> /\ StatOk(dir, n)})

\* prune_backups on a directory: the names it unlinks.
PruneDirectory(dir, c) ==
    LET backups == ListDirectory(dir)
        deleted == PruneBackups([snapshots |-> {n.stamp[1] : n \in RangeOf(backups)},
                                 failing |-> {}, auto_prune |-> TRUE,
                                 keep_minimum |-> c.keep_minimum,
                                 keep_days |-> c.keep_days])
    IN {n \in RangeOf(backups) : n.stamp[1] \in RangeOf(deleted)}

ListCalls ==
    {[op |-> "list", dir |-> d] : d \in Directories}
        \cup {[op |-> "prune_dir", dir |-> d, keep_minimum |-> m, keep_days |-> k] :
                d \in Directories, m \in 0..MaxKeepMinimum, k \in 0..MaxKeepDays}

\* list_backups is called.
ListReturns ==
    /\ call.op = "list"
    /\ result = NoCall
    /\ result' = [op |-> "list", returned |-> ListDirectory(call.dir), dir |-> call.dir]
    /\ UNCHANGED <<call, procVars>>

\* prune_backups is called on the directory.
PruneDirReturns ==
    /\ call.op = "prune_dir"
    /\ result = NoCall
    /\ result' = [op |-> "prune_dir",
                  returned |-> PruneDirectory(call.dir, call),
                  dir |-> [n \in BackupNames |->
                              IF n \in PruneDirectory(call.dir, call)
                              THEN "absent" ELSE call.dir[n]]]
    /\ UNCHANGED <<call, procVars>>

InitList ==
    /\ InitIdle
    /\ call \in ListCalls
    /\ result = NoCall

NextList == ListReturns \/ PruneDirReturns

SpecList == InitList /\ [][NextList]_vars

NewestFirst(s) == \A i, j \in 1..Len(s) : i < j => s[i].stamp[1] <= s[j].stamp[1]

\* Neither list_backups nor prune_backups touches a file whose name does
\* not parse, and list_backups leaves the whole directory as it was.
UnparseableKept ==
    result # NoCall =>
        /\ \A n \in BackupNames :
              ParseBackupFilename(n) = <<>> => result.dir[n] = call.dir[n]
        /\ result.op = "list" =>
              /\ result.dir = call.dir
              /\ NewestFirst(result.returned)
              /\ \A n \in RangeOf(result.returned) : ParseBackupFilename(n) # <<>>

\* C23 (as stated): list returns exactly the files of the backup directory
\* whose names parse, newest first, and leaves the directory unchanged;
\* files whose names do not parse are neither returned nor deleted by list
\* or prune.
ListingExact ==
    /\ UnparseableKept
    /\ (result # NoCall /\ result.op = "list") =>
          RangeOf(result.returned) =
              {n \in BackupNames : call.dir[n] # "absent" /\ ParseBackupFilename(n) # <<>>}

\* C23 (amended): list returns exactly the files of the backup directory
\* whose names parse and whose size can be read, newest first, and leaves
\* the directory unchanged; files whose names do not parse are neither
\* returned nor deleted by list or prune.
ListingExactOfReadable ==
    /\ UnparseableKept
    /\ (result # NoCall /\ result.op = "list") =>
          RangeOf(result.returned) =
              {n \in BackupNames : call.dir[n] = "file" /\ ParseBackupFilename(n) # <<>>}

ListingExactOfReadableWitness ==
    /\ result # NoCall /\ result.op = "list"
    /\ Len(result.returned) >= 2
    /\ \E n \in BackupNames : ParseBackupFilename(n) # <<>> /\ call.dir[n] = "unreadable"
    /\ \E n \in BackupNames : ParseBackupFilename(n) = <<>> /\ call.dir[n] = "file"

\* ------------------------- BackupManager.create_backup / restore_backup
\* The contents a world file can have.
MaxContent == 2

\* Paths below the world folder: directories and regular files.
DirPaths == {<<"region">>, <<"region", "old">>, <<"data">>}
FilePaths == {<<"level.dat">>, <<"region", "r0">>, <<"region", "old", "r1">>}

\* The directories a path lies in, the world folder itself left out.
AncestorsOf(p) == {SubSeq(p, 1, k) : k \in 1..(Len(p) - 1)}

\* A folder that does not exist.
NoFolder == [exists |-> FALSE, dirs |-> {}, files |-> {}]

\* The world folders examined: a set of directories and a set of
\* <<path, content>> files, every entry lying in a directory of the tree.
WorldTrees ==
    {t \in [exists : {TRUE}, dirs : SUBSET DirPaths,
            files : SUBSET (FilePaths \X (1..MaxContent))] :
        /\ \A d \in t.dirs : AncestorsOf(d) \subseteq t.dirs
        /\ \A f \in t.files : AncestorsOf(f[1]) \subseteq t.dirs
        /\ \A f, g \in t.files : f[1] = g[1] => f = g}

\* The zip archive create_backup writes: one entry for every path of
\* rglob("*") that is a regular file, under its path from the parent of
\* the world folder.
CreateArchive(world) == world.files

\* ZipFile.extractall into the parent of the target: every entry is
\* written as a file, and the directories on its path are made.
ExtractAll(archive) ==
    IF archive = {} THEN NoFolder
    ELSE [exists |-> TRUE,
          dirs |-> UNION {AncestorsOf(e[1]) : e \in archive},
          files |-> archive]

\* create_backup on an unchanging world folder.
RoundTripCreate ==
    /\ call.op = "roundtrip"
    /\ result = NoCall
    /\ result' = [op |-> "roundtrip", stage |-> "created",
                  archive |-> CreateArchive(call.tree), world |-> call.tree]
    /\ UNCHANGED <<call, procVars>>

\* The world folder is deleted.
RoundTripDelete ==
    /\ result.op = "roundtrip"
    /\ result.stage = "created"
    /\ result' = [result EXCEPT !.stage = "deleted", !.world = NoFolder]
    /\ UNCHANGED <<call, procVars>>

\* restore_backup(latest) with no target in place: nothing to rename, the
\* archive is extracted.
RoundTripRestore ==
    /\ result.op = "roundtrip"
    /\ result.stage = "deleted"
    /\ result' = [result EXCEPT !.stage = "restored", !.world = ExtractAll(result.archive)]
    /\ UNCHANGED <<call, procVars>>

InitRoundTrip ==
    /\ InitIdle
    /\ call \in {[op |-> "roundtrip", tree |-> t] : t \in WorldTrees}
    /\ result = NoCall

NextRoundTrip == RoundTripCreate \/ RoundTripDelete \/ RoundTripRestore

SpecRoundTrip == InitRoundTrip /\ [][NextRoundTrip]_vars

\* C24: create, deletion of the world folder and restore of the latest
\* snapshot give back a world folder equal to the original in layout and
\* content, empty directories included.
RoundTripIdentity ==
    (result # NoCall /\ result.stage = "restored") => result.world = call.tree

\* ------------------------------------------ BackupManager.restore_backup
\* What the extraction can meet: it goes through, the archive is refused
\* before anything is written (BadZipFile), or an OSError stops it with
\* part of the entries written.
ExtractResults == {"ok", "bad_zip", "os_error_midway"}

\* What shutil.rmtree of <target>.old can meet after the extraction: it
\* goes through, it raises OSError before removing anything, or it raises
\* OSError with part of the files already removed.
RmtreeResults == {"ok", "os_error_untouched", "os_error_midway"}

\* The calls of restore_backup examined: the target in place before the
\* call, the archive, and what extraction and removal meet.
RestoreCalls ==
    {[op |-> "restore", target |-> t, archive |-> CreateArchive(a),
      extract |-> e, rmtree |-> r] :
        t \in WorldTrees \cup {NoFolder}, a \in WorldTrees,
        e \in ExtractResults, r \in RmtreeResults}

\* The except branch of restore_backup: if <target>.old exists, a target
\* that exists is removed, <target>.old is renamed to target, and
\* BackupError is raised.
RestoreRollback(target, old) ==
    [op |-> "restore", raised |-> TRUE,
     target |-> IF old.exists THEN old ELSE target,
     old |-> NoFolder]

\* restore_backup with the target renamed to <target>.old (when it
\* exists), the archive extracted and <target>.old removed; left is what
\* a failing rmtree leaves of <target>.old.
RestoreBackup(c, left) ==
    LET old == c.target
    IN IF c.extract = "bad_zip" THEN RestoreRollback(NoFolder, old)
       ELSE IF c.extract = "os_error_midway"
       THEN RestoreRollback(ExtractAll(c.archive), old)
       ELSE IF ~old.exists \/ c.rmtree = "ok"
       THEN [op |-> "restore", raised |-> FALSE,
             target |-> ExtractAll(c.archive), old |-> NoFolder]
       ELSE IF c.rmtree = "os_error_untouched"
       THEN RestoreRollback(ExtractAll(c.archive), old)
       ELSE RestoreRollback(ExtractAll(c.archive), [old EXCEPT !.files = left])

\* restore_backup is called.
RestoreReturns ==
    /\ call.op = "restore"
    /\ result = NoCall
    /\ \E left \in SUBSET call.target.files :
         /\ left # call.target.files \/ call.target.files = {}
         /\ result' = RestoreBackup(call, left)
    /\ UNCHANGED <<call, procVars>>

InitRestore ==
    /\ InitIdle
    /\ call \in RestoreCalls
    /\ result = NoCall

NextRestore == RestoreReturns

SpecRestore == InitRestore /\ [][NextRestore]_vars

\* C25: when restore fails after the target was renamed to <target>.old,
\* during extraction or during the removal of <target>.old, then at the
\* return of the error the target has exactly its content of before the
\* call and <target>.old no longer exists.
RestoreRollsBack ==
    (result # NoCall /\ result.raised /\ call.target.exists) =>
        /\ result.target = call.target
        /\ ~result.old.exists

\* ------------------------------------------- BackupManager.create_backup
\* What create_backup can meet: nothing; mkdir of the backup folder raises
\* OSError; opening the archive raises OSError before the file exists;
\* zf.write raises OSError with the archive partly written; zf.write
\* raises ValueError (a file dated before 1980) with the archive partly
\* written; stat of the finished archive raises OSError.
CreateFaults ==
    {"none", "mkdir_os_error", "open_os_error", "write_os_error",
     "write_value_error", "stat_os_error"}

\* backup_path.unlink() in the except branch: it goes through or raises
\* OSError, which is passed over.
UnlinkResults == {"ok", "os_error"}

CreateCalls ==
    {[op |-> "create", world |-> w, fault |-> f, unlink |-> u] :
        w \in WorldTrees \cup {NoFolder}, f \in CreateFaults, u \in UnlinkResults}

\* The except (OSError, BadZipFile) branch of create_backup: the archive,
\* if it exists, is unlinked, and BackupError is raised.
CreateCleanup(c, archive) ==
    [op |-> "create", raised |-> "BackupError",
     archive |-> IF archive # "absent" /\ c.unlink = "ok" THEN "absent" ELSE archive]

\* create_backup: the error raised and what is left under the name
\* generated for the call.
CreateBackup(c) ==
    IF ~c.world.exists THEN [op |-> "create", raised |-> "BackupError", archive |-> "absent"]
    ELSE IF c.fault = "mkdir_os_error"
    THEN [op |-> "create", raised |-> "OSError", archive |-> "absent"]
    ELSE IF c.fault = "open_os_error" THEN CreateCleanup(c, "absent")
    ELSE IF c.fault = "write_os_error" THEN CreateCleanup(c, "partial")
    ELSE IF c.fault = "write_value_error"
    THEN [op |-> "create", raised |-> "ValueError", archive |-> "partial"]
    ELSE IF c.fault = "stat_os_error" THEN CreateCleanup(c, "complete")
    ELSE [op |-> "create", raised |-> "none", archive |-> "complete"]

\* create_backup is called.
CreateReturns ==
    /\ call.op = "create"
    /\ result = NoCall
    /\ result' = CreateBackup(call)
    /\ UNCHANGED <<call, procVars>>

InitCreate ==
    /\ InitIdle
    /\ call \in CreateCalls
    /\ result = NoCall

NextCreate == CreateReturns

SpecCreate == InitCreate /\ [][NextCreate]_vars

\* C26: whenever create fails, the error reaches the caller and no archive
\* of the name generated for the call is left in the backup folder.
NoPartialArchive ==
    (result # NoCall /\ result.raised # "none") => result.archive = "absent"

\* ------------------------------ BackupManager.world_changed_since_backup
\* Times of modification and time stamps of snapshots, in ticks.
MaxMtime == 2

\* Paths rglob("*") finds below the world folder.
ScanPaths == {"level.dat", "session.lock"}

\* What a path is: not there, a regular file or a directory, with the
\* outcome of stat() and the time of modification.
ScanEntries ==
    [kind : {"file", "dir"}, stat : {"ok", "os_error"}, mtime : 0..MaxMtime]
        \cup {[kind |-> "absent", stat |-> "os_error", mtime |-> 0]}

\* The calls examined: the time stamp of the newest snapshot (<<>> when
\* there is none), whether the world folder exists, and its entries.
ChangedCalls ==
    {c \in [op : {"changed"}, latest : {<<>>} \cup {<<t>> : t \in 0..MaxMtime},
            world_exists : BOOLEAN, entries : [ScanPaths -> ScanEntries]] :
        ~c.world_exists => \A p \in ScanPaths : c.entries[p].kind = "absent"}

\* st_mtime > backup_time
NewerOrEqual(mtime, backup_time) == mtime >= backup_time
Newer(mtime, backup_time) == mtime > backup_time

\* world_changed_since_backup
WorldChangedSinceBackup(c) ==
    IF c.latest = <<>> THEN TRUE
    ELSE IF ~c.world_exists THEN FALSE
    ELSE \E p \in ScanPaths :
            /\ c.entries[p].kind = "file"
            /\ c.entries[p].stat = "ok"
            /\ Newer(c.entries[p].mtime, c.latest[1])

\* world_changed_since_backup is called.
ChangedReturns ==
    /\ call.op = "changed"
    /\ result = NoCall
    /\ result' = [op |-> "changed", returned |-> WorldChangedSinceBackup(call)]
    /\ UNCHANGED <<call, procVars>>

InitChanged ==
    /\ InitIdle
    /\ call \in ChangedCalls
    /\ result = NoCall

NextChanged == ChangedReturns

SpecChanged == InitChanged /\ [][NextChanged]_vars

\* C27: world_changed_since_backup returns true exactly when there is no
\* snapshot, or some regular file below the world folder has a time of
\* modification strictly greater than the time stamp in the name of the
\* newest snapshot; files whose stat fails are skipped and count for
\* nothing.
ChangeDetection ==
    result # NoCall =>
        (result.returned <=>
            \/ call.latest = <<>>
            \/ \E p \in ScanPaths :
                  /\ call.entries[p] \in [kind : {"file"}, stat : {"ok"}, mtime : 0..MaxMtime]
                  /\ call.entries[p].mtime > call.latest[1])

ChangeDetectionWitness ==
    /\ result # NoCall
    /\ ~result.returned
    /\ call.latest # <<>>
    /\ \E p \in ScanPaths :
          /\ call.entries[p].kind = "file" /\ call.entries[p].stat = "os_error"
          /\ call.entries[p].mtime > call.latest[1]
    /\ \E p \in ScanPaths :
          /\ call.entries[p].kind = "file" /\ call.entries[p].stat = "ok"
          /\ call.entries[p].mtime = call.latest[1]

\* ------------------------ SyncthingClient.pause_folder / resume_folder
\* The folder configs the daemon can hold: the paused flag and the rest
\* of the config, which stands for every other key.
FolderConfigs == [id : {"world"}, paused : BOOLEAN, type : {"sendreceive", "sendonly"}]

\* What a request meets: a response, or a SyncthingError.
RequestResults == {"ok", "error"}

\* Two calls in a row of pause_folder or of resume_folder: whether the
\* client is enabled, the config of the daemon before the first call, and
\* what the GET and the PUT of each call meet.
FolderCalls ==
    [op : {"pause", "resume"}, enabled : BOOLEAN, config : FolderConfigs,
     get : [1..2 -> RequestResults], put : [1..2 -> RequestResults]]

\* folder_config.get("paused", False) already has the value wanted.
NeverAtTarget(config, target) == FALSE
AtTarget(config, target) == config.paused = target

\* The body of pause_folder (target TRUE) and of resume_folder (target
\* FALSE): what is returned, the bodies of the PUT requests issued, and
\* the config the daemon holds afterwards.
SetFolderPaused(enabled, daemon, target, get, put) ==
    IF ~enabled THEN [returned |-> FALSE, puts |-> <<>>, daemon |-> daemon]
    ELSE IF get = "error" THEN [returned |-> FALSE, puts |-> <<>>, daemon |-> daemon]
    ELSE IF AtTarget(daemon, target)
    THEN [returned |-> TRUE, puts |-> <<>>, daemon |-> daemon]
    ELSE LET folder_config == [daemon EXCEPT !.paused = target]
         IN IF put = "ok"
            THEN [returned |-> TRUE, puts |-> <<folder_config>>, daemon |-> folder_config]
            ELSE [returned |-> FALSE, puts |-> <<folder_config>>, daemon |-> daemon]

PauseFolder(enabled, daemon, get, put) == SetFolderPaused(enabled, daemon, TRUE, get, put)

ResumeFolder(enabled, daemon, get, put) == SetFolderPaused(enabled, daemon, FALSE, get, put)

\* The k-th call, made on the config the daemon holds.
FolderCall(c, daemon, k) ==
    IF c.op = "pause"
    THEN PauseFolder(c.enabled, daemon, c.get[k], c.put[k])
    ELSE ResumeFolder(c.enabled, daemon, c.get[k], c.put[k])

\* The first call is made.
FolderFirstCall ==
    /\ call.op \in {"pause", "resume"}
    /\ result = NoCall
    /\ result' = [op |-> call.op, history |-> <<FolderCall(call, call.config, 1)>>]
    /\ UNCHANGED <<call, procVars>>

\* The same call is made again.
FolderSecondCall ==
    /\ result.op \in {"pause", "resume"}
    /\ Len(result.history) = 1
    /\ result' = [result EXCEPT !.history =
                      Append(@, FolderCall(call, result.history[1].daemon, 2))]
    /\ UNCHANGED <<call, procVars>>

InitFolder ==
    /\ InitIdle
    /\ call \in FolderCalls
    /\ result = NoCall

NextFolder == FolderFirstCall \/ FolderSecondCall

SpecFolder == InitFolder /\ [][NextFolder]_vars

\* The config the daemon holds before the k-th call.
DaemonBefore(k) == IF k = 1 THEN call.config ELSE result.history[k - 1].daemon

\* C28: for an enabled client that can read the folder config, a call of
\* pause_folder or resume_folder that finds the paused flag at the value
\* wanted returns true and issues no PUT; otherwise it issues exactly one
\* PUT, of the config read with only the paused flag changed; and after a
\* call that returned true, the same call again leaves the daemon as it
\* is.
PauseResumeIdempotent ==
    result # NoCall =>
        /\ \A k \in 1..Len(result.history) :
              (call.enabled /\ call.get[k] = "ok") =>
                  IF DaemonBefore(k).paused = (call.op = "pause")
                  THEN result.history[k].returned /\ result.history[k].puts = <<>>
                  ELSE result.history[k].puts =
                          <<[DaemonBefore(k) EXCEPT !.paused = (call.op = "pause")]>>
        /\ (Len(result.history) = 2 /\ result.history[1].returned) =>
              /\ result.history[2].daemon = result.history[1].daemon
              /\ result.history[2].returned = (call.get[2] = "ok")

PauseResumeIdempotentWitness ==
    /\ result # NoCall
    /\ Len(result.history) = 2
    /\ Len(result.history[1].puts) = 1
    /\ result.history[1].returned
    /\ result.history[2].returned
    /\ result.history[2].puts = <<>>
    /\ result.history[2].daemon # call.config

\* ------------------------------------------ SyncthingClient.wait_for_sync
\* Timeouts and poll intervals of wait_for_sync, in ticks.
MaxWaitTimeout == 2
MaxPollInterval == 2

\* What get_folder_status can give: a FolderStatus, or a SyncthingError.
FolderStatuses ==
    [state : {"idle", "syncing"}, need_bytes : 0..1, need_files : 0..1,
     errors : 0..1, pull_errors : 0..1]

StatusError == [state |-> "error"]

\* FolderStatus.is_synced
IsSynced(status) ==
    status.state = "idle" /\ status.need_bytes = 0 /\ status.need_files = 0

\* FolderStatus.has_errors
HasErrors(status) == status.errors > 0 \/ status.pull_errors > 0

WaitCalls ==
    [op : {"wait"}, enabled : BOOLEAN, timeout : 0..MaxWaitTimeout,
     poll_interval : 1..MaxPollInterval]

\* wait_for_sync is entered: a disabled client returns True at once.
WaitBegin ==
    /\ call.op = "wait"
    /\ result = NoCall
    /\ result' = [op |-> "wait", elapsed |-> 0, polls |-> 0, observed |-> StatusError,
                  returned |-> IF call.enabled THEN "pending" ELSE "true"]
    /\ UNCHANGED <<call, procVars>>

\* One pass of the loop: the status is read; synced returns True, errors
\* return False, a SyncthingError returns False, anything else sleeps for
\* poll_interval.
WaitPoll ==
    /\ result.op = "wait"
    /\ result.returned = "pending"
    /\ result.elapsed < call.timeout
    /\ \E status \in FolderStatuses \cup {StatusError} :
         result' = [result EXCEPT
                      !.polls = 1,
                      !.observed = status,
                      !.returned = IF status = StatusError THEN "false"
                                   ELSE IF IsSynced(status) THEN "true"
                                   ELSE IF HasErrors(status) THEN "false"
                                   ELSE "pending",
                      !.elapsed = IF status # StatusError /\ ~IsSynced(status)
                                        /\ ~HasErrors(status)
                                  THEN @ + call.poll_interval ELSE @]
    /\ UNCHANGED <<call, procVars>>

\* The loop ends with the timeout used up.
WaitTimedOut ==
    /\ result.op = "wait"
    /\ result.returned = "pending"
    /\ result.elapsed >= call.timeout
    /\ result' = [result EXCEPT !.returned = "false"]
    /\ UNCHANGED <<call, procVars>>

InitWait ==
    /\ InitIdle
    /\ call \in WaitCalls
    /\ result = NoCall

NextWait == WaitBegin \/ WaitPoll \/ WaitTimedOut

SpecWait == InitWait /\ [][NextWait]_vars

\* C29: wait_for_sync returns true only if a poll observed the folder
\* synced, and returns false as soon as a poll observes errors or fails.
WaitForSyncResult ==
    result # NoCall =>
        /\ result.returned = "true" =>
              result.polls = 1 /\ result.observed # StatusError /\ IsSynced(result.observed)
        /\ (result.polls = 1 /\ result.observed = StatusError) => result.returned = "false"
        /\ (result.polls = 1 /\ result.observed # StatusError /\ HasErrors(result.observed)) =>
              result.returned = "false"

\* ------------------- SyncthingClient._request / get_folder_config
\* What the network gives a request: an HTTP response, a refused
\* connection, a timeout while connecting, another network error, or a
\* timeout while the response is read.
NetResults ==
    {"response", "connection_refused", "connect_timeout", "network_error", "read_timeout"}

HttpStatuses == {200, 204, 404, 500}

ResponseBodies == {"json", "invalid_json", "empty"}

FolderIds == {"world", "other"}

\* The calls of get_folder_config examined, for a client whose folder_id
\* is "world": the folders the daemon lists are those of the response.
RequestCalls ==
    [op : {"get_folder_config"}, enabled : BOOLEAN, net : NetResults,
     status : HttpStatuses, body : ResponseBodies, folders : SUBSET FolderIds]

\* The classes an exception is an instance of.
ClassesOf(exception) ==
    CASE exception = "HTTPError" -> {"HTTPError", "URLError", "OSError"}
      [] exception = "URLError" -> {"URLError", "OSError"}
      [] exception = "TimeoutError" -> {"TimeoutError", "OSError"}
      [] exception = "JSONDecodeError" -> {"JSONDecodeError", "ValueError"}
      [] exception = "SyncthingError" -> {"SyncthingError"}
      [] OTHER -> {}

\* What the try block of _request raises, "none" when it returns.
\* urlopen raises HTTPError for a status outside 2xx, URLError when the
\* connection fails; a 2xx status other than 200 raises SyncthingError;
\* json.loads raises JSONDecodeError.
RaisedInRequest(c) ==
    IF c.net \in {"connection_refused", "connect_timeout", "network_error"} THEN "URLError"
    ELSE IF c.net = "read_timeout" THEN "TimeoutError"
    ELSE IF c.status >= 300 THEN "HTTPError"
    ELSE IF c.status # 200 THEN "SyncthingError"
    ELSE IF c.body = "invalid_json" THEN "JSONDecodeError"
    ELSE "none"

\* The except clauses of _request in the order written.
ExceptClauses ==
    <<[class |-> "URLError", raises |-> "Unavailable"],
      [class |-> "HTTPError", raises |-> "Error"],
      [class |-> "JSONDecodeError", raises |-> "Error"],
      [class |-> "TimeoutError", raises |-> "Unavailable"]>>

\* The first except clause an exception is an instance of handles it; an
\* exception no clause matches leaves _request as it is (SyncthingError).
Handled(exception) ==
    LET matching == {i \in 1..Len(ExceptClauses) :
                        ExceptClauses[i].class \in ClassesOf(exception)}
    IN IF matching = {} THEN "Error"
       ELSE ExceptClauses[CHOOSE i \in matching : \A j \in matching : i <= j].raises

\* get_folder_config: "config" when the folder is returned, else the
\* error reported.
GetFolderConfig(c) ==
    IF ~c.enabled THEN "Error"
    ELSE IF RaisedInRequest(c) # "none" THEN Handled(RaisedInRequest(c))
    ELSE IF c.body = "json" /\ "world" \in c.folders THEN "config"
    ELSE "Error"

\* get_folder_config is called.
RequestReturns ==
    /\ call.op = "get_folder_config"
    /\ result = NoCall
    /\ result' = [op |-> "get_folder_config", reported |-> GetFolderConfig(call)]
    /\ UNCHANGED <<call, procVars>>

InitRequest ==
    /\ InitIdle
    /\ call \in RequestCalls
    /\ result = NoCall

NextRequest == RequestReturns

SpecRequest == InitRequest /\ [][NextRequest]_vars

\* C30: a request that fails because the connection was refused, timed
\* out or met a network error is reported as Unavailable; a request that
\* gets a response outside 2xx, invalid JSON or no folder of the id asked
\* for is reported as Error and never as Unavailable.
ErrorTaxonomy ==
    (result # NoCall /\ call.enabled) =>
        /\ call.net # "response" => result.reported = "Unavailable"
        /\ (call.net = "response" /\
              \/ call.status \notin {200, 204}
              \/ call.status = 200 /\ call.body = "invalid_json"
              \/ call.status = 200 /\ call.body = "json" /\ "world" \notin call.folders)
           => result.reported = "Error"

\* -------------------------------------------------- check_world_integrity
\* Minecraft region files use 4096-byte sectors.
SECTOR_SIZE == 4096

\* The sizes of region files examined: the values at and around the
\* limits of the checks.
RegionSizes ==
    {0, 1, SECTOR_SIZE, 2 * SECTOR_SIZE - 1, 2 * SECTOR_SIZE, 2 * SECTOR_SIZE + 1,
     3 * SECTOR_SIZE}

\* The places a region folder can be in: the world folder itself
\* ("region"), and the dimension folders, of which "DIM7" stands for a
\* modded dimension.
RegionParents == <<"region", "DIM-1", "DIM1", "DIM7">>

\* What a region folder holds: it is absent, it holds no .mca file, or it
\* holds one .mca file of some size, or one whose stat() raises OSError.
RegionStates ==
    {[kind |-> "absent", size |-> 0], [kind |-> "empty", size |-> 0],
     [kind |-> "unreadable", size |-> 0]}
        \cup {[kind |-> "file", size |-> s] : s \in RegionSizes}

\* check_region_file: the issue_type reported, "none" for no issue.
CheckRegionFile(file) ==
    IF file.kind = "unreadable" THEN "unreadable"
    ELSE IF file.size = 0 THEN "zero_byte"
    ELSE IF file.size < SECTOR_SIZE * 2 THEN "truncated"
    ELSE IF file.size % SECTOR_SIZE # 0 THEN "truncated"
    ELSE "none"

\* region not in region_folders
AlwaysNew(folders, region) == TRUE
NotIn(folders, region) == region \notin {folders[i] : i \in 1..Len(folders)}

\* find_region_folders: overworld, nether and end when they exist, then
\* every DIM* folder whose region folder exists and is not yet listed.
RECURSIVE GlobDims(_, _, _)
GlobDims(world, folders, i) ==
    IF i > Len(RegionParents) THEN folders
    ELSE IF world[RegionParents[i]].kind # "absent" /\ NotIn(folders, RegionParents[i])
         THEN GlobDims(world, Append(folders, RegionParents[i]), i + 1)
         ELSE GlobDims(world, folders, i + 1)

FindRegionFolders(world) ==
    GlobDims(world,
             SelectSeq(<<"region", "DIM-1", "DIM1">>, LAMBDA d : world[d].kind # "absent"),
             2)

\* The scan of check_world_integrity over the region folders from
\* position i on.
RECURSIVE ScanRegions(_, _, _, _)
ScanRegions(world, folders, i, report) ==
    IF i > Len(folders) THEN report
    ELSE LET file == world[folders[i]]
         IN IF file.kind = "empty" THEN ScanRegions(world, folders, i + 1, report)
            ELSE ScanRegions(world, folders, i + 1,
                   [report EXCEPT
                      !.total_files = @ + 1,
                      !.checked_files = @ + 1,
                      !.issues = IF CheckRegionFile(file) # "none"
                                 THEN Append(@, <<folders[i], CheckRegionFile(file)>>)
                                 ELSE @])

\* check_world_integrity
CheckWorldIntegrity(world) ==
    LET report == [error |-> FALSE, total_files |-> 0, checked_files |-> 0, issues |-> <<>>]
    IN IF FindRegionFolders(world) = <<>> THEN [report EXCEPT !.error = TRUE]
       ELSE ScanRegions(world, FindRegionFolders(world), 1, report)

RegionDirs == {RegionParents[i] : i \in 1..Len(RegionParents)}

\* check_world_integrity is called on a world folder.
IntegrityReturns ==
    /\ call.op = "integrity"
    /\ result = NoCall
    /\ result' = [op |-> "integrity", report |-> CheckWorldIntegrity(call.world)]
    /\ UNCHANGED <<call, procVars>>

InitIntegrity ==
    /\ InitIdle
    /\ call \in [op : {"integrity"}, world : [RegionDirs -> RegionStates]]
    /\ result = NoCall

NextIntegrity == IntegrityReturns

SpecIntegrity == InitIntegrity /\ [][NextIntegrity]_vars

\* C31: for every region file of size s under region/ or a DIM*/region/
\* folder the scan reports zero_byte if s = 0, truncated if 0 < s < 8192
\* or s mod 4096 # 0, unreadable if stat fails, and nothing otherwise;
\* each region file is checked exactly once, so checked_files is at least
\* the number of issues.
IntegrityClassification ==
    (result # NoCall /\ ~result.report.error) =>
        LET files == {d \in RegionDirs : call.world[d].kind \in {"file", "unreadable"}}
            issue(d) == IF call.world[d].kind = "unreadable" THEN "unreadable"
                        ELSE IF call.world[d].size = 0 THEN "zero_byte"
                        ELSE IF call.world[d].size < 8192 \/ call.world[d].size % 4096 # 0
                             THEN "truncated"
                        ELSE "none"
            issues == result.report.issues
        IN /\ result.report.checked_files = Cardinality(files)
           /\ {issues[i] : i \in 1..Len(issues)}
                 = {<<d, issue(d)>> : d \in {f \in files : issue(f) # "none"}}
           /\ Len(issues) = Cardinality({f \in files : issue(f) # "none"})
           /\ result.report.checked_files >= Len(issues)

IntegrityClassificationWitness ==
    /\ result # NoCall
    /\ ~result.report.error
    /\ result.report.checked_files = 4
    /\ call.world["DIM-1"].kind = "file" /\ call.world["DIM-1"].size = 2 * SECTOR_SIZE + 1
    /\ call.world["DIM7"].kind = "unreadable"
    /\ call.world["region"].size = 2 * SECTOR_SIZE
    /\ Len(result.report.issues) = 3

\* ------------------------------------------------ Console._process_command
\* Input lines: the first word, the letter case it is typed in, and
\* whether more words follow.
ConsoleWords == {"quit", "exit", "backup", "status", "help", "stop", "list", "say", "/stop"}

ConsoleLines == [word : ConsoleWords, casing : {"lower", "upper", "mixed"}, args : BOOLEAN]

\* What the operator answers to "Do you want to use safe shutdown
\* instead? [Y/n]", after strip().lower(); "eof" is the end of input.
PromptAnswers == {"", "y", "yes", "n", "no", "later", "eof"}

\* cmd = line.lower().split()[0]
FirstWordAsTyped(line) == [word |-> line.word, casing |-> line.casing]
FirstWordLower(line) == [word |-> line.word, casing |-> "lower"]

IsCmd(line, words) == FirstWordLower(line) \in [word : words, casing : {"lower"}]

\* The line server.send_command('stop') writes.
RawStop == [word |-> "stop", casing |-> "lower", args |-> FALSE]

\* _process_command with the answer given at the prompt of
\* _handle_protected: the lines written to the server's stdin and whether
\* the safe shutdown was started.  End of input at the prompt raises
\* EOFError, which _input_loop answers with _cmd_quit.
ProcessCommand(line, answer) ==
    IF IsCmd(line, {"quit", "exit"}) THEN [sent |-> <<>>, quit |-> TRUE]
    ELSE IF IsCmd(line, {"backup", "status", "help"}) THEN [sent |-> <<>>, quit |-> FALSE]
    ELSE IF IsCmd(line, {"stop"})
         THEN IF answer \in {"", "y", "yes", "eof"}
              THEN [sent |-> <<>>, quit |-> TRUE]
              ELSE [sent |-> <<RawStop>>, quit |-> FALSE]
    ELSE [sent |-> <<line>>, quit |-> FALSE]

\* A line is read and processed.
ConsoleReturns ==
    /\ call.op = "console"
    /\ result = NoCall
    /\ result' = [op |-> "console",
                  sent |-> ProcessCommand(call.line, call.answer).sent,
                  quit |-> ProcessCommand(call.line, call.answer).quit]
    /\ UNCHANGED <<call, procVars>>

InitConsole ==
    /\ InitIdle
    /\ call \in [op : {"console"}, line : ConsoleLines, answer : PromptAnswers]
    /\ result = NoCall

NextConsole == ConsoleReturns

SpecConsole == InitConsole /\ [][NextConsole]_vars

\* C32: every line whose first word is stop, in any letter case, is
\* intercepted: nothing is written to the server unless the operator
\* answered the prompt with something other than yes, and then the line
\* written is stop; a line that is neither a built-in verb nor stop is
\* passed to the server as it is; a built-in verb writes nothing.
StopIntercepted ==
    result # NoCall =>
        IF call.line.word = "stop"
        THEN /\ call.answer \in {"", "y", "yes", "eof"} => result.sent = <<>> /\ result.quit
             /\ result.sent # <<>> =>
                  result.sent = <<RawStop>> /\ call.answer \in {"n", "no", "later"}
        ELSE IF call.line.word \in {"quit", "exit", "backup", "status", "help"}
        THEN result.sent = <<>>
        ELSE result.sent = <<call.line>>

StopInterceptedWitness ==
    /\ result # NoCall
    /\ call.line.word = "stop" /\ call.line.casing = "mixed" /\ call.line.args
    /\ call.answer = "n"
    /\ result.sent = <<RawStop>>

\* --------------------------------------------------------------- cmd_status
\* What --status meets: the lock file, whether the sync client has an API
\* key, whether the daemon answers, the paused flag of the folder, and the
\* snapshots of the backup folder.
StatusCalls ==
    [op : {"status"}, lock : LockFiles, enabled : BOOLEAN, reachable : BOOLEAN,
     paused : BOOLEAN, snapshots : SUBSET (0..MaxListed)]

\* What lies outside the process: the lock file, the paused flag, the
\* snapshots, the world folder and the server process.
StatusEnv(c) ==
    [lock |-> c.lock, paused |-> c.paused, snapshots |-> c.snapshots,
     world |-> "untouched", child |-> "none"]

\* The effect of one operation on what lies outside the process: reads
\* of files and GET requests change nothing.
Effect(env, operation) ==
    CASE operation.kind = "put_paused" -> [env EXCEPT !.paused = operation.value]
      [] operation.kind = "unlink_lock" ->
            [env EXCEPT !.lock = [kind |-> "absent", hostname |-> "missing",
                                  heartbeat |-> "missing", age |-> 0]]
      [] operation.kind = "unlink_backup" -> [env EXCEPT !.snapshots = @ \ {operation.value}]
      [] operation.kind = "spawn" -> [env EXCEPT !.child = "running"]
      [] OTHER -> env

RECURSIVE Effects(_, _)
Effects(env, operations) ==
    IF operations = <<>> THEN env
    ELSE Effects(Effect(env, Head(operations)), Tail(operations))

\* is_folder_paused: get_folder_config, a GET.
PauseFolderOperations(c) ==
    <<[kind |-> "get_config", value |-> 0], [kind |-> "put_paused", value |-> TRUE]>>
IsFolderPausedOperations(c) == <<[kind |-> "get_config", value |-> 0]>>

\* cmd_status: check_lock_status reads the lock file; with an API key,
\* get_folder_status and, if it answered, is_folder_paused; list_backups
\* globs the backup folder and stats every snapshot.
CmdStatus(c) ==
    <<[kind |-> "read_lock", value |-> 0]>>
        \o (IF ~c.enabled THEN <<>>
            ELSE IF ~c.reachable THEN <<[kind |-> "get_status", value |-> 0]>>
            ELSE <<[kind |-> "get_status", value |-> 0]>> \o IsFolderPausedOperations(c))
        \o <<[kind |-> "glob_backups", value |-> 0]>>
        \o [i \in 1..Len(ListBackups(c.snapshots)) |->
               [kind |-> "stat_backup", value |-> ListBackups(c.snapshots)[i]]]

\* --status is run.
StatusReturns ==
    /\ call.op = "status"
    /\ result = NoCall
    /\ result' = [op |-> "status", operations |-> CmdStatus(call),
                  env |-> Effects(StatusEnv(call), CmdStatus(call))]
    /\ UNCHANGED <<call, procVars>>

InitStatus ==
    /\ InitIdle
    /\ call \in StatusCalls
    /\ result = NoCall

NextStatus == StatusReturns

SpecStatus == InitStatus /\ [][NextStatus]_vars

\* C33: running --status leaves the lock file, the snapshots, the world
\* folder and the paused flag of the sync folder as they were and never
\* starts the server.
StatusNoSideEffects ==
    result # NoCall =>
        /\ result.env.lock = call.lock
        /\ result.env.snapshots = call.snapshots
        /\ result.env.world = "untouched"
        /\ result.env.paused = call.paused
        /\ result.env.child = "none"

StatusNoSideEffectsWitness ==
    /\ result # NoCall
    /\ call.enabled /\ call.reachable /\ ~call.paused
    /\ call.lock.kind = "mapping"
    /\ Len(result.operations) = 6

\* The lock file on h names the other host and its heartbeat is within
\* stale_threshold.
LiveForeign(h) ==
    /\ lockFile[h] # NoLock
    /\ lockFile[h].hostname = Peer(h)
    /\ ~IsStale(lockFile[h])

\* C34: in no execution, on no startup or shutdown path and with a signal
\* at any moment, is delete_lock applied to a lock file that names
\* another host and whose heartbeat is within stale_threshold.
NeverDeletesLiveForeignLock ==
    [][\A h \in Hosts :
          (SdDeleteLock(h) \/ RollbackDelete(h) \/ RecoverConfirmed(h)) => ~LiveForeign(h)]_vars

\* C35: while a host holds the lock with its server running and its
\* heartbeat worker updating the local lock file, check_lock_status on
\* the replica of every other host gives other_active, although the
\* holder paused the replicated folder (the case examined: the folder is
\* paused, so that no delay of the replication is involved).
HolderLooksActive ==
    \A h \in Hosts :
        (/\ pc[h] = "console"
         /\ folderPaused[h]
         /\ child[h] = "running"
         /\ hbPc[h] \in {"wait", "read", "write"}
         /\ lockFile[h] # NoLock
         /\ lockFile[h].hostname = h
         /\ ~IsStale(lockFile[h]))
            => CheckLockStatus(lockFile[Peer(h)], Peer(h)) = "other_active"

\* C36: whenever the orchestrator writes its lock record at S4, the lock
\* file is at that moment absent or names this host: a record another
\* host wrote after the S2 status check is not overwritten.
AcquireOverwritesNothing ==
    [][\A h \in Hosts :
          AcqWrite(h) => (lockFile[h] = NoLock \/ lockFile[h].hostname = h)]_vars

\* C37: in every run of the shutdown sequence the server process is not
\* running at the moment the post-stop snapshot is taken and at the
\* moment the lock file is deleted, also when the graceful stop timed out
\* and the server had to be killed.
ReleasedAfterChildGone ==
    [][\A h \in Hosts :
          (SdBackup(h) \/ SdDeleteLock(h)) => child[h] # "running"]_vars

\* ------------------------------------------------- Wrapper.check_sync_status
\* The states the daemon can report for a folder; "other" stands for any
\* other string.
SyncStates == {"idle", "syncing", "scanning", "sync-preparing", "sync-waiting", "other"}

\* FolderStatus.is_syncing
IsSyncing(status) == status.state \in {"syncing", "sync-preparing", "sync-waiting"}

\* The calls of check_sync_status examined: whether the client has an API
\* key, what get_folder_status meets, the status it gives, whether a
\* wait_for_sync ends with the folder synced, and the operator's answer
\* if asked.
SyncCheckCalls ==
    [op : {"sync_check"}, enabled : BOOLEAN, request : {"ok", "unavailable", "error"},
     status : [state : SyncStates, need_bytes : 0..1, need_files : 0..1,
               errors : 0..1, pull_errors : 0..1],
     wait : {"synced", "failed"}, confirm : BOOLEAN]

\* The branch of check_sync_status a call takes, in the terms of
\* DaemonReplies.
ReplyOf(c) ==
    IF c.request = "unavailable" THEN "unavailable"
    ELSE IF c.request = "error" THEN "api_error"
    ELSE IF IsSynced(c.status) THEN "synced"
    ELSE IF HasErrors(c.status) THEN "errors"
    ELSE IF IsSyncing(c.status)
         THEN IF c.wait = "synced" THEN "syncing_then_synced" ELSE "syncing_timeout"
    ELSE "unknown_state"

\* check_sync_status is called.
SyncCheckReturns ==
    /\ call.op = "sync_check"
    /\ result = NoCall
    /\ result' = [op |-> "sync_check",
                  returned |-> IF call.enabled THEN CheckSyncStatus(ReplyOf(call), call.confirm)
                               ELSE TRUE,
                  asked |-> call.enabled /\
                            ReplyOf(call) \in {"errors", "syncing_timeout", "unavailable", "api_error"},
                  synced |-> call.enabled /\ ReplyOf(call) \in {"synced", "syncing_then_synced"}]
    /\ UNCHANGED <<call, procVars>>

InitSyncCheck ==
    /\ InitIdle
    /\ call \in SyncCheckCalls
    /\ result = NoCall

NextSyncCheck == SyncCheckReturns

SpecSyncCheck == InitSyncCheck /\ [][NextSyncCheck]_vars

\* C38: whenever check_sync_status of a client with an API key returns
\* true without the operator having confirmed, the status observed last
\* was synced, whatever state the daemon reports.
PassesOnlySynced ==
    (result # NoCall /\ call.enabled /\ result.returned /\ ~result.asked) => result.synced

\* ------------------------------- create_backup on a folder with snapshots
\* The wall clock in seconds, the precision of get_backup_timestamp.
MaxSecond == 2

Seconds == 0..MaxSecond

\* The backup folder: for the name of each second, whether a file of that
\* name is absent, partly written or a complete archive.
BackupFolders == [Seconds -> {"absent", "partial", "complete"}]

\* The number of files list_backups finds in a folder.
Listed(folder) == Cardinality({s \in Seconds : folder[s] # "absent"})

\* get_backup_timestamp: the name generated at a time is that of its
\* second.
GetBackupTimestamp(now) == now

\* create_backup at the time now in a folder that may hold a file of the
\* generated name already: no file is touched before the archive is
\* opened; opening with mode 'w' truncates the file of that name; the
\* except branch unlinks whatever exists under the name.
CreateInFolder(folder, now, c) ==
    LET name == GetBackupTimestamp(now)
        r == CreateBackup(c)
        after == IF ~c.world.exists \/ c.fault = "mkdir_os_error" THEN folder[name]
                 ELSE IF c.fault = "open_os_error"
                      THEN CreateCleanup(c, folder[name]).archive
                 ELSE r.archive
    IN  [folder |-> [folder EXCEPT ![name] = after], raised |-> r.raised, name |-> name]

\* No create_backup has been called yet.
NoCreate == [raised |-> "not_called"]

\* create_backup is called at the present second.
SnapshotCreate ==
    /\ call.op = "snapshots"
    /\ \E e \in BOOLEAN, f \in CreateFaults, u \in UnlinkResults :
         LET c == [op |-> "create", world |-> [exists |-> e], fault |-> f, unlink |-> u]
             r == CreateInFolder(result.folder, result.now, c)
         IN  result' = [op |-> "snapshots", folder |-> r.folder, now |-> result.now,
                        last |-> [raised |-> r.raised, name |-> r.name,
                                  before |-> result.folder]]
    /\ UNCHANGED <<call, procVars>>

\* A second passes.
SnapshotClock ==
    /\ call.op = "snapshots"
    /\ result.now < MaxSecond
    /\ result' = [result EXCEPT !.now = @ + 1]
    /\ UNCHANGED <<call, procVars>>

InitSnapshots ==
    /\ InitIdle
    /\ call = [op |-> "snapshots"]
    /\ result = [op |-> "snapshots", folder |-> [s \in Seconds |-> "absent"], now |-> 0,
                 last |-> NoCreate]

NextSnapshots == SnapshotCreate \/ SnapshotClock

SpecSnapshots == InitSnapshots /\ [][NextSnapshots]_vars

\* C39: every create that succeeds leaves one more listed snapshot than
\* there was before it, and every create that fails leaves each snapshot
\* that existed before it as it was, also when the create before it was
\* made in the same second.
CreateDestroysNothing ==
    (call.op = "snapshots" /\ result.last # NoCreate) =>
        /\ result.last.raised = "none" =>
               Listed(result.folder) = Listed(result.last.before) + 1
        /\ result.last.raised # "none" =>
               \A s \in Seconds :
                   result.last.before[s] # "absent" => result.folder[s] = result.last.before[s]

\* ------------------------------------------------- progress of the shell
\* What the coordinator does by itself: the steps of startup and of
\* shutdown, and the heartbeat worker.  Operator input (ConsoleQuit) and
\* the end of the server process (ChildExits) are not among them.  A
\* shutdown with no heartbeat running (SdNoHeartbeat) takes a signal
\* during startup and is left out.
ShutdownStep(h) ==
    \/ SdEnterFirst(h) \/ SdStopChild(h) \/ SdNoChild(h)
    \/ SdStopHeartbeat(h) \/ SdJoined(h) \/ SdJoinTimeout(h)
    \/ SdBackup(h) \/ SdBackupOSError(h)
    \/ SdDeleteLock(h) \/ SdDeleteLockFail(h)
    \/ SdPrune(h) \/ SdResume(h) \/ SdCleanup(h) \/ SdReturn(h)

\* One coordinator without signals and crashes.
NextLive ==
    \/ Startup("a") \/ ConsoleQuit("a") \/ ChildExits("a") \/ ShutdownStep("a")
    \/ Heartbeat("a") \/ Deliver \/ Tick

\* The main thread and the heartbeat thread are both scheduled as long as
\* they have a step to take; the operator need not ever type anything and
\* the server process need not ever end.
SpecLive ==
    /\ Init
    /\ [][NextLive]_vars
    /\ WF_vars(Startup("a"))
    /\ WF_vars(ShutdownStep("a"))
    /\ WF_vars(Heartbeat("a"))

\* C40: once the server process has ended on its own while the shell
\* runs, the shutdown sequence is eventually entered, without the
\* operator typing anything.
ChildExitLeadsToShutdown ==
    (pc["a"] = "console" /\ child["a"] = "exited") ~> shutdownInProgress["a"]

====
